---- MODULE Spec2Model ----
(***************************************************************************)
(* A model of godar: the Monitor's tracking engine (pkg/monitor), its      *)
(* poll loop and lifecycle, and the Fetcher's authentication and retry     *)
(* logic (pkg/fetch).                                                      *)
(*                                                                         *)
(* Time is counted in minutes, distances in whole kilometres.              *)
(***************************************************************************)
EXTENDS Integers, Sequences, FiniteSets, TLC

(***************************************************************************)
(* Bounds of the model.                                                    *)
(***************************************************************************)
MaxDist == 1
MaxTime == 17
MaxReNotify == 2
MaxPoll == 2
SightHorizon == 5
MaxDepth == 2
MaxBatch == 2
MaxCalls == 3
MaxAlt == 1
MaxLog == 3
MaxText == 3
MaxTurn == 80

\* 15 * time.Minute in cleanupAircraftHistory
StaleWindow == 15

IDs == {"a1", "a2"}
Dists == 0..MaxDist
Times == 0..MaxTime
ReNotifyValues == 0..MaxReNotify

VARIABLES
    config,           \* Monitor.config.Notification
    aircraftHistory,  \* Monitor.aircraftHistory: identifier -> AircraftTracker
    now,              \* the wall clock read by time.Now()
    last,             \* the call made by the step just taken, and what it returned
    pollInterval,     \* Monitor.config.Monitoring.PollInterval
    prevSighting,     \* history of calls: identifier -> distance of its latest sighting
    notifiedAt,       \* history of calls: identifier -> time of its latest notify
                      \* decision, kept while it is sighted in every poll
    seen              \* history of calls: identifiers sighted in the current poll

VARIABLES
    creds,            \* Fetcher.Username, Fetcher.Password
    authMethod,       \* Fetcher.authMethod
    sessionCookie,    \* Fetcher.sessionCookie
    fpc,              \* where the running Fetch call stands
    depth,            \* how many Fetch calls are nested inside the outermost one
    loginFrom,        \* which call site of login() is running
    idx,              \* login's position in its list of methods
    tried,            \* the methods the latest login() call ran, with their results
    loginResult,      \* what the latest login() call returned
    reauths,          \* re-authentications since the outermost Fetch call began
    requests,         \* feed requests sent since the outermost Fetch call began
    fresult,          \* what the outermost Fetch call returned
    returned,         \* the list and the error of that return statement
    attached,         \* the credentials the latest feed request carried
    calls,            \* Fetch calls the poll loop has made
    logins,           \* login() calls since the outermost Fetch call began
    answer            \* the server's answer to the latest feed request

VARIABLES
    historyMutex,     \* Monitor.historyMutex: its writer and its readers
    pc,               \* where the loop goroutine and the direct caller stand
    loc,              \* the locals of each one's processAircraft call
    batch,            \* fetchAndProcess: the aircraft of acList not yet processed
    stopChan,         \* Monitor.stopChan: "open" or "closed"
    ctxDone,          \* Monitor.ctx is cancelled
    wg,               \* Monitor.wg's counter
    stopPc,           \* where the call of Stop stands
    stoppedWhile      \* history of calls: where the loop stood when Stop was called

VARIABLES
    cpc,              \* where the running fetchAndProcess call stands
    fetched,          \* fetchAndProcess: what fetcher.Fetch() returned
    processed,        \* the aircraft processAircraft was called for in this cycle
    sends,            \* the notifier.Send calls of this cycle and what they returned
    paErr,            \* what each processAircraft call of this cycle returned
    cycleResult       \* what the latest fetchAndProcess call returned

VARIABLES
    identCall,        \* the latest report of an aircraft and the key it resolved to
    keysOf            \* history of calls: airframe -> the keys its reports resolved to

VARIABLES
    fetcher,          \* the Fetcher's filter and location fields
    location,         \* Monitor.config.Location
    query,            \* the query parameters of the latest feed request built
    measured          \* what calculateDistance did for the latest aircraft

VARIABLES
    loopLog,          \* history: what the loop goroutine has done, in order
    decoding,         \* a JSON value and what a field's UnmarshalJSON made of it
    heading,          \* a bearing and what BearingToDirection made of it
    swept,            \* history: identifiers a sweep removed, seen again or not
    getCall           \* Client.Get: its place, its loop counter, what Do returned

trackVars == <<config, aircraftHistory, now, last>>
monVars == <<historyMutex, pc, loc, batch, stopChan, ctxDone, wg, stopPc,
             stoppedWhile>>
sightVars == <<pollInterval, prevSighting, notifiedAt, seen>>
fetchVars == <<creds, authMethod, sessionCookie, fpc, depth, loginFrom, idx,
               tried, loginResult, reauths, requests, fresult, returned, attached,
               calls, logins, answer>>
cycleVars == <<cpc, fetched, processed, sends, paErr, cycleResult>>
identVars == <<identCall, keysOf>>
queryVars == <<fetcher, location, query, measured>>
restVars == <<loopLog, decoding, heading, swept, getCall>>
auxVars == <<cycleVars, identVars, queryVars, restVars>>
vars == <<config, aircraftHistory, now, last,
          pollInterval, prevSighting, notifiedAt, seen,
          creds, authMethod, sessionCookie, fpc, depth, loginFrom, idx,
          tried, loginResult, reauths, requests, fresult, returned, attached,
          calls, logins, answer,
          historyMutex, pc, loc, batch, stopChan, ctxDone, wg, stopPc,
          stoppedWhile,
          cpc, fetched, processed, sends, paErr, cycleResult,
          identCall, keysOf,
          fetcher, location, query, measured,
          loopLog, decoding, heading, swept, getCall>>

NoCall ==
    [op |-> "none", id |-> "", dist |-> 0, first |-> FALSE, notify |-> FALSE,
     removed |-> 0]

(***************************************************************************)
(* shouldNotifyAircraft                                                    *)
(***************************************************************************)

\* the tracker stored on a first sighting
NewTrackerZeroDistance(currentDistance, t) ==
    [LastDistance |-> 0, LastSeen |-> t, Notified |-> TRUE]

NewTrackerNotNotified(currentDistance, t) ==
    [LastDistance |-> currentDistance, LastSeen |-> t, Notified |-> FALSE]

NewTracker(currentDistance, t) ==
    [LastDistance |-> currentDistance, LastSeen |-> t, Notified |-> TRUE]

IsGettingCloserOrEqual(tracker, currentDistance) ==
    currentDistance <= tracker.LastDistance

IsGettingCloser(tracker, currentDistance) ==
    currentDistance < tracker.LastDistance

ShouldNotifyByTimeInclusive(tracker, t) ==
    IF config.ReNotifyAfter > 0
    THEN (t - tracker.LastSeen) >= config.ReNotifyAfter
    ELSE FALSE

ShouldNotifyByTime(tracker, t) ==
    IF config.ReNotifyAfter > 0
    THEN (t - tracker.LastSeen) > config.ReNotifyAfter
    ELSE FALSE

\* the decision for an already tracked identifier
DecideCloserAlways(isGettingCloser, shouldNotifyByTime) ==
    isGettingCloser \/ shouldNotifyByTime

Decide(isGettingCloser, shouldNotifyByTime) ==
    IF config.NotifyOnCloserOnly
    THEN isGettingCloser \/ shouldNotifyByTime
    ELSE TRUE

UpdatedTrackerOnNotify(tracker, currentDistance, t, notify) ==
    [LastDistance |-> IF notify THEN currentDistance ELSE tracker.LastDistance,
     LastSeen     |-> t,
     Notified     |-> IF notify THEN TRUE ELSE tracker.Notified]

UpdatedTrackerKeepsLastSeen(tracker, currentDistance, t, notify) ==
    [LastDistance |-> currentDistance,
     LastSeen     |-> IF notify THEN t ELSE tracker.LastSeen,
     Notified     |-> IF notify THEN TRUE ELSE tracker.Notified]

\* the tracker after an observation of an already tracked identifier
UpdatedTracker(tracker, currentDistance, t, notify) ==
    [LastDistance |-> currentDistance,
     LastSeen     |-> t,
     Notified     |-> IF notify THEN TRUE ELSE tracker.Notified]

FirstSightingBranchCloserOnly(history, aircraftID, currentDistance, t) ==
    [history |-> (aircraftID :> NewTracker(currentDistance, t)) @@ history,
     first   |-> TRUE,
     notify  |-> ~config.NotifyOnCloserOnly]

\* shouldNotifyAircraft when the identifier has no tracker: the history it
\* leaves and the value it returns
FirstSightingBranch(history, aircraftID, currentDistance, t) ==
    [history |-> (aircraftID :> NewTracker(currentDistance, t)) @@ history,
     first   |-> TRUE,
     notify  |-> TRUE]

\* shouldNotifyAircraft when the identifier has the tracker `tracker`
TrackedBranch(history, tracker, aircraftID, currentDistance, t) ==
    LET notify == Decide(IsGettingCloser(tracker, currentDistance),
                         ShouldNotifyByTime(tracker, t))
    IN  [history |-> IF aircraftID \in DOMAIN history
                     THEN [history EXCEPT ![aircraftID] =
                              UpdatedTracker(tracker, currentDistance, t, notify)]
                     ELSE history,
         first   |-> FALSE,
         notify  |-> notify]

\* the body of shouldNotifyAircraft, run under historyMutex.Lock()
ShouldNotifyAircraft(history, aircraftID, currentDistance, t) ==
    IF aircraftID \notin DOMAIN history
    THEN FirstSightingBranch(history, aircraftID, currentDistance, t)
    ELSE TrackedBranch(history, history[aircraftID], aircraftID,
                       currentDistance, t)

(***************************************************************************)
(* cleanupAircraftHistory                                                  *)
(***************************************************************************)

IsStaleInclusive(tracker, t) == tracker.LastSeen <= t - StaleWindow

\* tracker.LastSeen.Before(now.Add(-15 * time.Minute))
IsStale(tracker, t) == tracker.LastSeen < t - StaleWindow

CleanupAircraftHistoryTouches(history, t) ==
    [id \in {k \in DOMAIN history : ~IsStale(history[k], t)} |->
        [history[id] EXCEPT !.LastSeen = t]]

CleanupAircraftHistory(history, t) ==
    [id \in {k \in DOMAIN history : ~IsStale(history[k], t)} |-> history[id]]

(***************************************************************************)
(* The tracking engine called sequentially: observations, cleanup sweeps   *)
(* and the passing of time.                                                *)
(***************************************************************************)

Configs ==
    [Enabled : BOOLEAN, NotifyOnCloserOnly : BOOLEAN,
     ReNotifyAfter : ReNotifyValues]

\* shouldNotifyAircraft does not read Enabled
EngineConfigs == {c \in Configs : c.Enabled}

EmptyHistory == [id \in {} |-> NewTracker(0, 0)]

NoSightings == [id \in {} |-> 0]

Procs == {"loop", "caller"}

NoLocals ==
    [id |-> "", dist |-> 0, previousDistance |-> 0, exists |-> FALSE,
     tracker |-> NewTracker(0, 0), t |-> 0, first |-> FALSE,
     shouldNotify |-> FALSE]

\* the zero values of an aircraft.Aircraft
ZeroAircraft == [Icao |-> "", Call |-> "", Type |-> "", Alt |-> 0, Reg |-> ""]

NoReport == [op |-> "none", airframe |-> "", ac |-> ZeroAircraft, key |-> ""]

\* the airframes in range of the receiver
Airframes == {"airliner", "glider"}

\* the zero values of the Fetcher's filter and location fields
ZeroFilters ==
    [AircraftType |-> "", MinAltitude |-> 0, MaxAltitude |-> 0,
     Military |-> FALSE, Operator |-> "", FlightNumber |-> "",
     UserLat |-> 0, UserLong |-> 0, MaxDistance |-> 0]

\* the zero value of config.LocationConfig
ZeroLocation == [Latitude |-> 0, Longitude |-> 0, MaxDistance |-> 0]

NoQuery == [built |-> FALSE, params |-> [name \in {} |-> ""]]

\* no fetchAndProcess call has been made
CycleIdle ==
    /\ cpc = "idle"
    /\ fetched = [err |-> FALSE, list |-> <<>>]
    /\ processed = <<>>
    /\ sends = <<>>
    /\ paErr = <<>>
    /\ cycleResult = "none"

\* no aircraft has been reported
NoReports ==
    /\ identCall = NoReport
    /\ keysOf = [p \in Airframes |-> {}]

\* no feed request has been built and no distance calculated
NoFeedRequest ==
    /\ query = NoQuery
    /\ measured = "none"

\* no JSON value to decode
NoDecoding == [data |-> [kind |-> "none", text |-> <<>>], field |-> "none",
               err |-> FALSE, value |-> <<>>]

\* no bearing to name
NoHeading == [bearing |-> 0, direction |-> "none"]

\* no Client.Get call has been made
NoGet == [pc |-> "idle", attempt |-> 0, done |-> <<>>, result |-> "none"]

\* the loop has done nothing, and no decoder, geo function or Client is in use
RestIdle ==
    /\ loopLog = <<>>
    /\ decoding = NoDecoding
    /\ heading = NoHeading
    /\ swept = [id \in IDs |-> "no"]
    /\ getCall = NoGet

\* a Monitor and a Fetcher without filters and location that have done nothing
AuxIdle ==
    /\ CycleIdle
    /\ NoReports
    /\ RestIdle
    /\ fetcher = ZeroFilters
    /\ location = ZeroLocation
    /\ NoFeedRequest

\* NewMonitorWithDeps, before Start
NewMonitor ==
    /\ historyMutex = [writer |-> "none", readers |-> {}]
    /\ pc = [p \in Procs |-> IF p = "loop" THEN "notStarted" ELSE "idle"]
    /\ loc = [p \in Procs |-> NoLocals]
    /\ batch = <<>>
    /\ stopChan = "open"
    /\ ctxDone = FALSE
    /\ wg = 0
    /\ stopPc = "notCalled"
    /\ stoppedWhile = "never"

\* no answer: the request failed in transport, or none was sent
NoAnswer == [status |-> 0, location |-> <<>>, contentType |-> <<>>,
             body |-> "none"]

\* no Fetch call has returned
NoReturn == [list |-> "none", err |-> "none"]

\* NewFetcher: no credentials, no session
NewFetcher ==
    /\ authMethod = ""
    /\ sessionCookie = ""
    /\ fpc = "idle"
    /\ depth = 0
    /\ loginFrom = "entry"
    /\ idx = 1
    /\ tried = <<>>
    /\ loginResult = "none"
    /\ reauths = 0
    /\ requests = 0
    /\ fresult = "none"
    /\ returned = NoReturn
    /\ attached = "none"
    /\ calls = 0
    /\ logins = 0
    /\ answer = NoAnswer

InitTrack ==
    /\ creds = [Username |-> "", Password |-> ""]
    /\ NewFetcher
    /\ NewMonitor
    /\ AuxIdle
    /\ config \in EngineConfigs
    /\ aircraftHistory = EmptyHistory
    /\ now = 0
    /\ last = NoCall
    /\ pollInterval = 1
    /\ prevSighting = NoSightings
    /\ notifiedAt = NoSightings
    /\ seen = {}

\* one call shouldNotifyAircraft(id, d) at the current time
ObserveCall(id, d) ==
    LET r == ShouldNotifyAircraft(aircraftHistory, id, d, now)
    IN  /\ aircraftHistory' = r.history
        /\ last' = [NoCall EXCEPT !.op = "observe", !.id = id, !.dist = d,
                                  !.first = r.first, !.notify = r.notify]
        /\ UNCHANGED <<config, now>>

Observe ==
    /\ \E id \in IDs, d \in Dists : ObserveCall(id, d)
    /\ UNCHANGED <<sightVars, fetchVars, monVars, auxVars>>

\* one call cleanupAircraftHistory(); removed is initialCount - finalCount
Cleanup ==
    LET after == CleanupAircraftHistory(aircraftHistory, now)
    IN  /\ aircraftHistory' = after
        /\ last' = [NoCall EXCEPT !.op = "cleanup",
                       !.removed = Cardinality(DOMAIN aircraftHistory)
                                   - Cardinality(DOMAIN after)]
        /\ UNCHANGED <<config, now>>
        /\ UNCHANGED <<sightVars, fetchVars, monVars, auxVars>>

\* a minute passes
AdvanceTime ==
    /\ now + 1 <= MaxTime
    /\ now' = now + 1
    /\ last' = [NoCall EXCEPT !.op = "tick"]
    /\ UNCHANGED <<config, aircraftHistory>>
    /\ UNCHANGED <<sightVars, fetchVars, monVars, auxVars>>

NextTrack == Observe \/ Cleanup \/ AdvanceTime

SpecTrack == InitTrack /\ [][NextTrack]_vars

(***************************************************************************)
(* Claims about the tracking engine.                                       *)
(***************************************************************************)

\* C1: a call for an identifier that has no tracker returns true and leaves a
\* tracker holding the call's distance and time, whatever NotifyOnCloserOnly
\* and ReNotifyAfter are.
C1_FirstSightingNotifies ==
    [][(last'.op = "observe" /\ last'.id \notin DOMAIN aircraftHistory)
        => /\ last'.notify
           /\ last'.id \in DOMAIN aircraftHistory'
           /\ aircraftHistory'[last'.id].LastDistance = last'.dist
           /\ aircraftHistory'[last'.id].LastSeen = now
           /\ aircraftHistory'[last'.id].Notified]_vars

\* a first sighting at a non-zero distance, in closer-only mode with a re-notify
\* interval set
C1_Witness ==
    /\ last.op = "observe" /\ last.first /\ last.notify
    /\ last.dist > 0
    /\ config.NotifyOnCloserOnly /\ config.ReNotifyAfter > 0
    /\ aircraftHistory[last.id].LastDistance = last.dist

\* C3: with NotifyOnCloserOnly disabled every call returns true.
C3_LegacyModeAlwaysNotifies ==
    (last.op = "observe" /\ ~config.NotifyOnCloserOnly) => last.notify

\* a repeated sighting at the greatest distance (so not closer than the one
\* before), with no re-notify interval, that notifies in legacy mode
C3_Witness ==
    /\ last.op = "observe" /\ ~last.first /\ last.notify
    /\ ~config.NotifyOnCloserOnly /\ config.ReNotifyAfter = 0
    /\ last.dist = MaxDist

\* C8: a sweep removes every tracker last seen more than 15 minutes before the
\* sweep and keeps, unchanged, every tracker last seen within the last 15
\* minutes; none of the trackers left is older than 15 minutes.
C8_CleanupRemovesExactlyStale ==
    [][last'.op = "cleanup"
        => /\ \A id \in DOMAIN aircraftHistory :
                IF now - aircraftHistory[id].LastSeen > StaleWindow
                THEN id \notin DOMAIN aircraftHistory'
                ELSE /\ id \in DOMAIN aircraftHistory'
                     /\ aircraftHistory'[id] = aircraftHistory[id]
           /\ \A id \in DOMAIN aircraftHistory' :
                now - aircraftHistory'[id].LastSeen <= StaleWindow]_vars

\* a sweep that removed one tracker and kept one last seen exactly 15 minutes ago
C8_Witness ==
    /\ last.op = "cleanup" /\ last.removed = 1
    /\ \E id \in DOMAIN aircraftHistory :
          now - aircraftHistory[id].LastSeen = StaleWindow

\* C9: in closer-only mode with a re-notify interval R > 0, a call for a tracked
\* identifier returns true iff its distance is below the tracker's LastDistance
\* or more than R has passed since the tracker's LastSeen.
C9_CloserOrDueForRenotify ==
    [][(/\ last'.op = "observe"
        /\ last'.id \in DOMAIN aircraftHistory
        /\ config.NotifyOnCloserOnly
        /\ config.ReNotifyAfter > 0)
        => (last'.notify <=>
              \/ last'.dist < aircraftHistory[last'.id].LastDistance
              \/ now - aircraftHistory[last'.id].LastSeen > config.ReNotifyAfter)]_vars

\* a repeated sighting at the greatest distance (so not closer than the one
\* before) that notifies because the re-notify interval has passed
C9_Witness ==
    /\ last.op = "observe" /\ ~last.first /\ last.notify
    /\ config.NotifyOnCloserOnly /\ config.ReNotifyAfter > 0
    /\ last.dist = MaxDist

\* C25: from an empty history, after any sequence of observations and cleanup
\* sweeps, every tracker in the history has Notified = TRUE.
C25_EveryTrackerNotified ==
    \A id \in DOMAIN aircraftHistory : aircraftHistory[id].Notified

\* a repeated sighting that did not notify has left its tracker in the
\* history, after a sweep
C25_Witness ==
    /\ last.op = "observe" /\ ~last.first /\ ~last.notify
    /\ last.id \in DOMAIN aircraftHistory
    /\ aircraftHistory[last.id].Notified
    /\ now > StaleWindow

\* C26: the LastSeen of a tracker key never decreases from one state of the
\* history to the next, and every observation of a key sets its LastSeen to
\* the time of that observation.
C26_LastSeenNeverDecreases ==
    [][/\ \A id \in DOMAIN aircraftHistory \cap DOMAIN aircraftHistory' :
             aircraftHistory'[id].LastSeen >= aircraftHistory[id].LastSeen
       /\ last'.op = "observe"
             => /\ last'.id \in DOMAIN aircraftHistory'
                /\ aircraftHistory'[last'.id].LastSeen = now]_vars

\* a tracked key was observed again, later and without a notification, and
\* its LastSeen is the time of this observation
C26_Witness ==
    /\ last.op = "observe" /\ ~last.first /\ ~last.notify
    /\ now > 0
    /\ aircraftHistory[last.id].LastSeen = now
    /\ Cardinality(DOMAIN aircraftHistory) > 1

\* C35: a cleanup sweep returns no notify decision, adds no tracker, leaves
\* the LastDistance, LastSeen and Notified of every tracker it keeps as they
\* were, and removes stale trackers only.
C35_CleanupOnlyRemovesStale ==
    [][last'.op = "cleanup"
        => /\ ~last'.notify /\ ~last'.first
           /\ DOMAIN aircraftHistory' \subseteq DOMAIN aircraftHistory
           /\ \A id \in DOMAIN aircraftHistory' :
                /\ aircraftHistory'[id].LastDistance
                     = aircraftHistory[id].LastDistance
                /\ aircraftHistory'[id].LastSeen = aircraftHistory[id].LastSeen
                /\ aircraftHistory'[id].Notified = aircraftHistory[id].Notified
           /\ \A id \in DOMAIN aircraftHistory \ DOMAIN aircraftHistory' :
                aircraftHistory[id].LastSeen < now - StaleWindow]_vars

\* a sweep has removed one tracker and kept another, seen at a non-zero
\* distance some minutes before the sweep
C35_Witness ==
    /\ last.op = "cleanup" /\ last.removed = 1
    /\ \E id \in DOMAIN aircraftHistory :
          /\ aircraftHistory[id].LastSeen < now
          /\ aircraftHistory[id].LastDistance > 0

(***************************************************************************)
(* The tracking engine driven by polls a fixed interval apart, with the    *)
(* history of the sightings recorded beside it.                            *)
(***************************************************************************)

PollIntervals == 1..MaxPoll

InitSight ==
    /\ creds = [Username |-> "", Password |-> ""]
    /\ NewFetcher
    /\ NewMonitor
    /\ AuxIdle
    /\ config \in EngineConfigs
    /\ pollInterval \in PollIntervals
    /\ aircraftHistory = EmptyHistory
    /\ now = 0
    /\ last = NoCall
    /\ prevSighting = NoSightings
    /\ notifiedAt = NoSightings
    /\ seen = {}

\* processAircraft's call of shouldNotifyAircraft for one aircraft of a poll
Sighting ==
    \E id \in IDs, d \in Dists :
        /\ ObserveCall(id, d)
        /\ prevSighting' = (id :> d) @@ prevSighting
        /\ notifiedAt' = IF last'.notify THEN (id :> now) @@ notifiedAt
                         ELSE notifiedAt
        /\ seen' = seen \cup {id}
        /\ UNCHANGED <<pollInterval, fetchVars, monVars, auxVars>>

\* the ticker fires: the next poll is one poll interval later
PollTick ==
    /\ now + pollInterval <= SightHorizon
    /\ now' = now + pollInterval
    /\ last' = [NoCall EXCEPT !.op = "tick"]
    /\ notifiedAt' = [id \in DOMAIN notifiedAt \cap seen |-> notifiedAt[id]]
    /\ seen' = {}
    /\ UNCHANGED <<config, aircraftHistory, pollInterval, prevSighting>>
    /\ UNCHANGED <<fetchVars, monVars, auxVars>>

NextSight == Sighting \/ PollTick

SpecSight == InitSight /\ [][NextSight]_vars

\* C2: in closer-only mode with no re-notify interval, a sighting of an
\* identifier sighted before notifies iff its distance is strictly below the
\* distance of that identifier's preceding sighting.
C2_CloserOnlyStrictlyCloser ==
    [][(/\ last'.op = "observe"
        /\ last'.id \in DOMAIN prevSighting
        /\ config.NotifyOnCloserOnly
        /\ config.ReNotifyAfter = 0)
        => (last'.notify <=> last'.dist < prevSighting[last'.id])]_vars

\* a sighting at the same distance as the one before, in a later poll, that
\* does not notify
C2_Witness ==
    /\ last.op = "observe" /\ ~last.notify
    /\ config.NotifyOnCloserOnly /\ config.ReNotifyAfter = 0
    /\ last.dist = 0
    /\ now > 0

\* C32: an observation of a tracked identifier, notifying or not, leaves the
\* tracker with that observation's distance and time; so every tracker holds
\* the distance of the identifier's latest observation, which is what the
\* next observation is compared with.
C32_TrackerHoldsLatestObservation ==
    [][/\ (last'.op = "observe" /\ last'.id \in DOMAIN aircraftHistory)
            => /\ aircraftHistory'[last'.id].LastDistance = last'.dist
               /\ aircraftHistory'[last'.id].LastSeen = now
       /\ \A id \in DOMAIN aircraftHistory' :
            /\ id \in DOMAIN prevSighting'
            /\ aircraftHistory'[id].LastDistance = prevSighting'[id]]_vars

\* an identifier notified in an earlier poll has been observed again, farther
\* away and without a notification, and its tracker holds the new distance
C32_Witness ==
    /\ last.op = "observe" /\ ~last.first /\ ~last.notify
    /\ last.dist = MaxDist
    /\ aircraftHistory[last.id].LastDistance = MaxDist
    /\ aircraftHistory[last.id].LastSeen = now
    /\ last.id \in DOMAIN notifiedAt
    /\ notifiedAt[last.id] < now

\* C10: in closer-only mode with a re-notify interval R > 0, an identifier
\* notified before and sighted in every poll since is notified again by the
\* first sighting made more than R after its latest notification.
C10_ReNotifiedAfterInterval ==
    [][(/\ last'.op = "observe"
        /\ last'.id \in DOMAIN notifiedAt
        /\ config.NotifyOnCloserOnly
        /\ config.ReNotifyAfter > 0
        /\ now - notifiedAt[last'.id] > config.ReNotifyAfter)
        => last'.notify]_vars

(***************************************************************************)
(* Fetcher: login and Fetch (pkg/fetch/fetch.go).  The server answers each *)
(* request as it likes.                                                    *)
(***************************************************************************)

Credentials == [Username : {"", "user"}, Password : {"", "pass"}]

\* what the server may answer to tryFormLogin's POST
FormResponses == {"transportError", "rauthCookie", "noCookie"}

\* what the server may answer to the trial GET of tryBasicAuth, tryURLAuth
\* and tryNoAuth
ProbeResponses == {"transportError", "json", "notJson"}

\* header values and URLs are sequences of pieces of text
Locations == {<<>>, <<"/", "login.php">>, <<"/", "index.html">>}

ContentTypes ==
    {<<>>, <<"application/json">>, <<"application/json", "; charset=utf-8">>,
     <<"text/html">>, <<"text/html", "; x=", "application/json">>}

\* the body: an aircraft list, an empty JSON object, text that is no JSON,
\* or a body whose read fails
Bodies == {"acList", "emptyObject", "malformed", "unreadable"}

\* what may come of the feed request: a transport error, or an answer
FeedResponses ==
    {NoAnswer}
    \cup [status : {200, 301, 302, 500}, location : Locations,
          contentType : ContentTypes, body : Bodies]

\* strings.Contains
Contains(s, piece) == \E i \in 1..Len(s) : s[i] = piece

\* startsWith
startsWith(s, prefix) ==
    Len(s) >= Len(prefix) /\ SubSeq(s, 1, Len(prefix)) = prefix

\* io.ReadAll succeeds and json.Unmarshal into an AircraftList succeeds
Decodes(body) == body \in {"acList", "emptyObject"}

AuthMethodsBasicFirst == <<"basic", "form", "url", "none">>

AuthMethodsNoForm == <<"basic", "url", "none">>

\* login's list of methods, in the order it tries them
AuthMethods == <<"form", "basic", "url", "none">>

AuthResponses(name) ==
    IF name = "form" THEN FormResponses ELSE ProbeResponses

\* tryFormLogin, tryBasicAuth, tryURLAuth, tryNoAuth: whether the method
\* validates on this answer, and the session it then records
TryMethod(name, resp) ==
    IF name = "form"
    THEN [ok |-> resp = "rauthCookie", authMethod |-> "session",
          sessionCookie |-> "rauth=v"]
    ELSE [ok |-> resp = "json", authMethod |-> name,
          sessionCookie |-> sessionCookie]

\* status 302 or 301 with a Location that contains login.php
IsLoginRedirect(resp) ==
    resp.status \in {302, 301} /\ Contains(resp.location, "login.php")

\* Fetch's test of the Content-Type header
IsJson(contentType) ==
    ~(contentType = <<>>
      \/ (contentType # <<"application/json">>
          /\ ~startsWith(contentType, <<"application/json">>)))

FeedOutcomeAnyContentType(resp) ==
    IF resp = NoAnswer \/ resp.status # 200 \/ ~Decodes(resp.body)
    THEN "error"
    ELSE "ok"

\* what Fetch returns on an answer that is no redirect to the login page
FeedOutcome(resp) ==
    IF resp = NoAnswer THEN "error"
    ELSE IF resp.status # 200 THEN "error"
    ELSE IF resp.body = "unreadable" THEN "error"
    ELSE IF ~IsJson(resp.contentType) THEN "error"
    ELSE IF ~Decodes(resp.body) THEN "error"
    ELSE "ok"

\* the credentials Fetch puts on the feed request for the remembered method
AttachedAuth ==
    CASE authMethod = "session" /\ sessionCookie # "" -> "cookie"
      [] authMethod = "basic" -> "basic"
      [] authMethod = "url" -> "url"
      [] OTHER -> "none"

InitFetch ==
    /\ creds \in Credentials
    /\ NewFetcher
    /\ NewMonitor
    /\ AuxIdle
    /\ config = [Enabled |-> TRUE, NotifyOnCloserOnly |-> TRUE,
                 ReNotifyAfter |-> 0]
    /\ aircraftHistory = EmptyHistory
    /\ now = 0
    /\ last = NoCall
    /\ pollInterval = 1
    /\ prevSighting = NoSightings
    /\ notifiedAt = NoSightings
    /\ seen = {}

\* a call of Fetch by the poll loop
FetchCall ==
    /\ fpc = "idle"
    /\ calls < MaxCalls
    /\ calls' = calls + 1
    /\ fpc' = "entry"
    /\ depth' = 0
    /\ reauths' = 0
    /\ requests' = 0
    /\ logins' = 0
    /\ fresult' = "none"
    /\ returned' = NoReturn
    /\ UNCHANGED <<creds, authMethod, sessionCookie, loginFrom, idx, tried,
                   loginResult, attached, answer>>
    /\ UNCHANGED <<trackVars, sightVars, monVars, auxVars>>

FetchReturnsListOnDecodeError(site) ==
    [list |-> IF site \in {"success", "decode"} THEN "acList" ELSE "nil",
     err  |-> IF site = "success" THEN "nil" ELSE site]

\* the two values of a return statement of Fetch: `nil, err` at every one
\* but the last, `&acList, nil` at the last
FetchReturn(site) ==
    [list |-> IF site = "success" THEN "acList" ELSE "nil",
     err  |-> IF site = "success" THEN "nil" ELSE site]

\* the return statement that wraps the error of a login() made from there
LoginSite(from) ==
    IF from = "entry" THEN "authentication" ELSE "re-authentication"

\* the return statement Fetch reaches on an answer that is no redirect to
\* the login page
FeedSite(resp) ==
    IF resp = NoAnswer THEN "request"
    ELSE IF resp.status # 200 THEN "status"
    ELSE IF resp.body = "unreadable" THEN "read"
    ELSE IF ~IsJson(resp.contentType) THEN "contentType"
    ELSE IF ~Decodes(resp.body) THEN "decode"
    ELSE "success"

LoginRefusesNever == FALSE

\* login() returns an error at once unless both credentials are set
LoginRefuses == creds.Username = "" \/ creds.Password = ""

\* the entry of login(): it refuses to run without both credentials, and the
\* Fetch call that made it then returns the error
LoginBegin(from) ==
    /\ tried' = <<>>
    /\ loginFrom' = from
    /\ idx' = 1
    /\ logins' = logins + 1
    /\ IF LoginRefuses
       THEN /\ loginResult' = "failed"
            /\ fpc' = "idle"
            /\ fresult' = "error"
            /\ returned' = FetchReturn(LoginSite(from))
       ELSE /\ loginResult' = "running"
            /\ fpc' = "try"
            /\ UNCHANGED <<fresult, returned>>

NeedsLoginWithCredentials == creds.Username # "" \/ creds.Password # ""

\* Fetch logs in when a credential is set and no method is remembered
NeedsLogin == (creds.Username # "" \/ creds.Password # "") /\ authMethod = ""

\* Fetch's first lines
FetchEntry ==
    /\ fpc = "entry"
    /\ IF NeedsLogin
       THEN LoginBegin("entry")
       ELSE /\ fpc' = "request"
            /\ UNCHANGED <<tried, loginFrom, idx, loginResult, fresult,
                           returned, logins>>
    /\ UNCHANGED <<creds, authMethod, sessionCookie, depth, reauths, requests,
                   attached, calls, answer>>
    /\ UNCHANGED <<trackVars, sightVars, monVars, auxVars>>

\* one turn of login's loop over its methods
LoginTry ==
    /\ fpc = "try"
    /\ \E resp \in AuthResponses(AuthMethods[idx]) :
         LET name == AuthMethods[idx]
             r    == TryMethod(name, resp)
         IN  /\ tried' = Append(tried, [name |-> name, ok |-> r.ok])
             /\ IF r.ok
                THEN /\ authMethod' = r.authMethod
                     /\ sessionCookie' = r.sessionCookie
                     /\ loginResult' = "ok"
                     /\ IF loginFrom = "entry"
                        THEN fpc' = "request" /\ UNCHANGED depth
                        ELSE fpc' = "entry" /\ depth' = depth + 1
                     /\ UNCHANGED <<idx, fresult, returned>>
                ELSE /\ UNCHANGED <<authMethod, sessionCookie, depth>>
                     /\ IF idx < Len(AuthMethods)
                        THEN /\ idx' = idx + 1
                             /\ UNCHANGED <<fpc, loginResult, fresult,
                                            returned>>
                        ELSE /\ loginResult' = "failed"
                             /\ fpc' = "idle"
                             /\ fresult' = "error"
                             /\ returned' = FetchReturn(LoginSite(loginFrom))
                             /\ UNCHANGED idx
    /\ UNCHANGED <<creds, loginFrom, reauths, requests, attached, calls,
                   logins, answer>>
    /\ UNCHANGED <<trackVars, sightVars, monVars, auxVars>>

SessionExpiredKeepsMethod ==
    [sessionCookie |-> "", authMethod |-> authMethod]

\* what Fetch assigns on a redirect to the login page, before it calls login
SessionExpired == [sessionCookie |-> "", authMethod |-> ""]

\* the feed request and what Fetch does with the answer
SendRequest ==
    /\ fpc = "request"
    /\ \E resp \in FeedResponses :
         /\ IsLoginRedirect(resp) => depth < MaxDepth
         /\ requests' = requests + 1
         /\ attached' = AttachedAuth
         /\ answer' = resp
         /\ IF IsLoginRedirect(resp)
            THEN /\ sessionCookie' = SessionExpired.sessionCookie
                 /\ authMethod' = SessionExpired.authMethod
                 /\ reauths' = reauths + 1
                 /\ LoginBegin("reauth")
            ELSE /\ fpc' = "idle"
                 /\ fresult' = FeedOutcome(resp)
                 /\ returned' = FetchReturn(FeedSite(resp))
                 /\ UNCHANGED <<authMethod, sessionCookie, reauths, tried,
                                loginFrom, idx, loginResult, logins>>
    /\ UNCHANGED <<creds, depth, calls>>
    /\ UNCHANGED <<trackVars, sightVars, monVars, auxVars>>

NextFetch == FetchCall \/ FetchEntry \/ LoginTry \/ SendRequest

SpecFetch == InitFetch /\ [][NextFetch]_vars

\* C4: within one Fetch call a redirect to the login page makes login run again
\* at most once and the feed request be sent at most twice.
C4_SingleReauthAndRetry ==
    reauths <= 1 /\ requests <= 2

\* the name under which each method records itself in authMethod
RecordedAs(name) == IF name = "form" THEN "session" ELSE name

\* C5: login runs form login, Basic Auth, URL parameters and no authentication
\* in that order, runs nothing after a method that validated, and leaves that
\* method as the session's auth method.
C5_LoginOrder ==
    /\ Len(tried) <= 4
    /\ \A i \in 1..Len(tried) :
          tried[i].name = <<"form", "basic", "url", "none">>[i]
    /\ \A i \in 1..(Len(tried) - 1) : ~tried[i].ok
    /\ loginResult = "ok"
          => /\ Len(tried) > 0
             /\ tried[Len(tried)].ok
             /\ authMethod = RecordedAs(tried[Len(tried)].name)
    /\ loginResult = "running" => authMethod = ""

\* a login in which form login and Basic Auth failed and URL parameters
\* validated
C5_Witness ==
    /\ loginResult = "ok"
    /\ Len(tried) = 3
    /\ authMethod = "url"

\* C21: a Fetch call returns a list exactly when the answer to its last feed
\* request has status 200, a Content-Type that begins with application/json
\* and a body that reads and decodes; a transport error, any other status,
\* any other or missing Content-Type and any other body make it return an
\* error.
C21_ListOnlyFromOkJson ==
    (fpc = "idle" /\ fresult # "none")
        => (fresult = "ok"
              <=> /\ requests > 0
                  /\ answer.status = 200
                  /\ Len(answer.contentType) > 0
                  /\ answer.contentType[1] = "application/json"
                  /\ answer.body \in {"acList", "emptyObject"})

\* a call has returned an error on an answer with status 200 and a body that
\* decodes, whose Content-Type names application/json but does not begin
\* with it
C21_Witness ==
    /\ fpc = "idle"
    /\ fresult = "error"
    /\ requests = 1
    /\ answer.status = 200
    /\ answer.contentType = <<"text/html", "; x=", "application/json">>
    /\ answer.body = "acList"

\* fetchAndProcess reads acList.TotalAc and ranges over acList.Aircraft
\* unless the error of Fetch is not nil
Dereferences(r) == r.err = "nil"

\* C40: every Fetch call that returns, on whatever path, returns either a
\* list and a nil error or a nil list and an error, never both and never
\* neither, so that fetchAndProcess dereferences no nil list.
C40_ListXorError ==
    /\ fpc # "idle" => returned = NoReturn
    /\ (fpc = "idle" /\ calls > 0)
          => /\ returned.list \in {"nil", "acList"}
             /\ returned.err # "none"
             /\ (returned.list = "nil") <=> (returned.err # "nil")
             /\ Dereferences(returned) => returned.list # "nil"
             /\ (fresult = "ok") <=> (returned.err = "nil")
             /\ returned.err = "re-authentication" => IsLoginRedirect(answer)
             /\ returned.err \in {"status", "read", "contentType", "decode"}
                   => ~IsLoginRedirect(answer) /\ answer # NoAnswer

\* a Fetch call has returned the list its inner call decoded after a
\* redirect to the login page and a login
C40_Witness ==
    /\ fpc = "idle"
    /\ depth = 1
    /\ reauths = 1
    /\ returned = [list |-> "acList", err |-> "nil"]

\* a Fetch call has returned the error of a failed re-authentication, and
\* the next call has not yet got past its first lines
AfterFailedReauth ==
    /\ fpc = "idle" \/ (fpc = "entry" /\ requests = 0)
    /\ IsLoginRedirect(answer)
    /\ loginFrom = "reauth"
    /\ loginResult = "failed"

\* C36 as stated: after a failed re-authentication the client is left
\* without cookie and method, and the next Fetch call logs in again.
C36_NextFetchLogsInAgain ==
    AfterFailedReauth
        => /\ sessionCookie = "" /\ authMethod = ""
           /\ (creds.Username # "" \/ creds.Password # "") /\ authMethod = ""

\* C36: on a redirect to the login page the cookie and the method are
\* cleared before login starts; a failed re-authentication makes Fetch return
\* an error and leaves both cleared; the next Fetch call then logs in again,
\* from the first method on, when a credential is configured, and sends its
\* request without authentication when none is.
C36_ClearedThenLoginIfCredentials ==
    /\ (fpc = "try" /\ loginFrom = "reauth" /\ tried = <<>>)
          => sessionCookie = "" /\ authMethod = "" /\ idx = 1
    /\ AfterFailedReauth
          => /\ sessionCookie = "" /\ authMethod = ""
             /\ fpc = "idle" => fresult = "error"
             /\ ((creds.Username # "" \/ creds.Password # "") /\ authMethod = "")
                   <=> creds # [Username |-> "", Password |-> ""]
    /\ (fpc = "try" /\ loginFrom = "entry" /\ IsLoginRedirect(answer)
           /\ requests = 0)
          => /\ Len(tried) = idx - 1
             /\ \A i \in 1..Len(tried) : tried[i].name = AuthMethods[i]

\* the call before ended in a failed re-authentication, and this call's
\* login has come to the last method of the chain
C36_Witness ==
    /\ calls = 2
    /\ requests = 0
    /\ IsLoginRedirect(answer)
    /\ fpc = "try"
    /\ loginFrom = "entry"
    /\ authMethod = "" /\ sessionCookie = ""
    /\ Len(tried) = 3

\* the credentials a feed request carries under each remembered method
CarriedBy(method) ==
    CASE method = "session" -> "cookie"
      [] method = "basic" -> "basic"
      [] method = "url" -> "url"
      [] OTHER -> "none"

\* C16: while a method is remembered, a Fetch call passes its first lines
\* without running login, its feed request carries the credentials of that
\* method and no others, and the remembered method changes only when the
\* answer to a feed request is a redirect to the login page.
C16_RememberedMethodOnly ==
    [][authMethod # ""
        => /\ fpc = "entry"
                => (fpc' = "request" /\ logins' = logins /\ tried' = tried)
           /\ fpc = "request" => attached' = CarriedBy(authMethod)
           /\ authMethod' # authMethod
                => (fpc = "request" /\ reauths' = reauths + 1)]_vars

\* the second Fetch call has returned a list without running login, its
\* request carrying the Basic Auth header of the method an earlier call
\* validated
C16_Witness ==
    /\ calls = 2
    /\ logins = 0
    /\ fresult = "ok"
    /\ authMethod = "basic"
    /\ attached = "basic"

\* the names of the methods the latest login() call ran
TriedNames == [i \in 1..Len(tried) |-> tried[i].name]

\* the Fetch call that last returned ran login() and login() failed
ReturnedLoginError ==
    /\ fpc = "idle"
    /\ logins > 0
    /\ loginResult = "failed"

\* C17 as stated: with a username or a password configured, a Fetch call in
\* which no method validates returns an authentication error without having
\* sent the feed request, having tried each of the four methods exactly once,
\* and leaves no remembered method.
C17_FailedLoginTriesAllOnce ==
    ((creds.Username # "" \/ creds.Password # "") /\ ReturnedLoginError)
        => /\ fresult = "error"
           /\ requests = 0
           /\ TriedNames = <<"form", "basic", "url", "none">>
           /\ authMethod = ""
           /\ sessionCookie = ""

\* C17 amended: with both a username and a password configured, a Fetch call
\* whose login at entry finds no method validating returns an error without
\* having sent the feed request, having tried form login, Basic Auth, URL
\* parameters and no authentication once each, and remembers no method; with
\* only one of the two configured, login() refuses at once and the call
\* returns the error with no method tried and no feed request sent.
C17_EntryLoginFailure ==
    /\ (/\ creds.Username # "" /\ creds.Password # ""
        /\ ReturnedLoginError
        /\ loginFrom = "entry")
        => /\ fresult = "error"
           /\ requests = 0
           /\ logins = 1
           /\ TriedNames = <<"form", "basic", "url", "none">>
           /\ \A i \in 1..Len(tried) : ~tried[i].ok
           /\ authMethod = ""
           /\ sessionCookie = ""
    /\ (/\ (creds.Username = "") # (creds.Password = "")
        /\ ReturnedLoginError)
        => /\ fresult = "error"
           /\ requests = 0
           /\ tried = <<>>
           /\ authMethod = ""

\* the first Fetch call, with both credentials set, has returned the error
\* after all four methods failed
C17_Witness ==
    /\ creds.Username # "" /\ creds.Password # ""
    /\ ReturnedLoginError
    /\ loginFrom = "entry"
    /\ calls = 1
    /\ Len(tried) = 4

\* C18: with neither a username nor a password configured, no Fetch call runs
\* an authentication method, no method is ever remembered, and no feed
\* request carries a cookie, a Basic Auth header or credential parameters.
C18_NoCredentialsNoAuth ==
    (creds.Username = "" /\ creds.Password = "")
        => /\ fpc # "try"
           /\ tried = <<>>
           /\ authMethod = ""
           /\ sessionCookie = ""
           /\ attached = "none"

\* without credentials, a call answered by a redirect to the login page has
\* returned its error, and the call after it has returned a list
C18_Witness ==
    /\ creds.Username = "" /\ creds.Password = ""
    /\ loginResult = "failed"
    /\ calls = 2
    /\ requests = 1
    /\ fresult = "ok"

(***************************************************************************)
(* Monitor: the loop goroutine started by Start, a caller that calls       *)
(* processAircraft directly, and a call of Stop, running concurrently.     *)
(* The Fetcher and the Notifier are the interfaces the Monitor is built    *)
(* with: Fetch returns an error or a list, Send returns an error or nil.   *)
(***************************************************************************)

\* the concurrent specifications tell a near aircraft from a far one
NearFar == {0, MaxDist}

Observations == [id : IDs, dist : NearFar]

RECURSIVE SeqsUpTo(_, _)
SeqsUpTo(S, n) ==
    IF n = 0 THEN {<<>>}
    ELSE LET shorter == SeqsUpTo(S, n - 1)
         IN  shorter \cup {Append(q, x) : q \in shorter, x \in S}

\* the aircraft lists Fetch may return
Batches == SeqsUpTo(Observations, MaxBatch)

\* the clock of this specification moves in steps longer than the stale window
LongPause == StaleWindow + 1

CanLockAlways(p) == TRUE

\* sync.RWMutex: Lock waits for the writer and for every reader to leave
CanLock(p) ==
    historyMutex.writer = "none" /\ historyMutex.readers = {}

\* sync.RWMutex: RLock waits for the writer to leave
CanRLock(p) == historyMutex.writer = "none"

UnlockNever(mutex) == mutex

\* sync.RWMutex: Unlock, the writer leaves
Unlock(mutex) == [mutex EXCEPT !.writer = "none"]

SendsNotificationWhenDisabled(enabled, shouldNotify) == shouldNotify

\* processAircraft calls notifier.Send under this condition
SendsNotification(enabled, shouldNotify) == enabled /\ shouldNotify

WaitReturnsAtOnce == TRUE

\* sync.WaitGroup: Wait returns when the counter is zero
WaitMayReturn == wg = 0

InitMon ==
    /\ creds = [Username |-> "", Password |-> ""]
    /\ NewFetcher
    /\ NewMonitor
    /\ AuxIdle
    /\ config \in {c \in Configs : c.ReNotifyAfter \in {0, MaxReNotify}}
    /\ aircraftHistory = EmptyHistory
    /\ now = 0
    /\ last = NoCall
    /\ pollInterval = 1
    /\ prevSighting = NoSightings
    /\ notifiedAt = NoSightings
    /\ seen = {}

monFrame == <<config, last, sightVars, fetchVars, auxVars>>

\* processAircraft returns: the loop goes on with the rest of the list, the
\* direct caller is done
Return(p) ==
    /\ loc' = [loc EXCEPT ![p] = NoLocals]
    /\ IF p = "loop"
       THEN /\ pc' = [pc EXCEPT ![p] = "process"]
            /\ batch' = Tail(batch)
       ELSE /\ pc' = [pc EXCEPT ![p] = "idle"]
            /\ UNCHANGED batch

\* a direct call processAircraft(ac)
CallProcessAircraft ==
    /\ pc["caller"] = "idle"
    /\ \E o \in Observations :
         loc' = [loc EXCEPT !["caller"] =
                    [NoLocals EXCEPT !.id = o.id, !.dist = o.dist]]
    /\ pc' = [pc EXCEPT !["caller"] = "pa_rlock"]
    /\ UNCHANGED <<aircraftHistory, now, historyMutex, batch, stopChan,
                   ctxDone, wg, stopPc, stoppedWhile, monFrame>>

\* processAircraft: RLock and the read of the previous distance
ReadPrevious(p) ==
    /\ pc[p] = "pa_rlock"
    /\ CanRLock(p)
    /\ historyMutex' = [historyMutex EXCEPT !.readers = @ \cup {p}]
    /\ loc' = [loc EXCEPT ![p].previousDistance =
                  IF loc[p].id \in DOMAIN aircraftHistory
                  THEN aircraftHistory[loc[p].id].LastDistance
                  ELSE 0]
    /\ pc' = [pc EXCEPT ![p] = "pa_runlock"]
    /\ UNCHANGED <<aircraftHistory, now, batch, stopChan, ctxDone, wg,
                   stopPc, stoppedWhile, monFrame>>

\* processAircraft: RUnlock
ReadUnlock(p) ==
    /\ pc[p] = "pa_runlock"
    /\ historyMutex' = [historyMutex EXCEPT !.readers = @ \ {p}]
    /\ pc' = [pc EXCEPT ![p] = "sn_lock"]
    /\ UNCHANGED <<aircraftHistory, now, loc, batch, stopChan, ctxDone, wg,
                   stopPc, stoppedWhile, monFrame>>

\* shouldNotifyAircraft: Lock
DecisionLock(p) ==
    /\ pc[p] = "sn_lock"
    /\ CanLock(p)
    /\ historyMutex' = [historyMutex EXCEPT !.writer = p]
    /\ pc' = [pc EXCEPT ![p] = "sn_check"]
    /\ UNCHANGED <<aircraftHistory, now, loc, batch, stopChan, ctxDone, wg,
                   stopPc, stoppedWhile, monFrame>>

\* shouldNotifyAircraft: the map lookup and time.Now()
DecisionCheck(p) ==
    /\ pc[p] = "sn_check"
    /\ loc' = [loc EXCEPT
                 ![p].exists = loc[p].id \in DOMAIN aircraftHistory,
                 ![p].tracker = IF loc[p].id \in DOMAIN aircraftHistory
                                THEN aircraftHistory[loc[p].id]
                                ELSE NoLocals.tracker,
                 ![p].t = now]
    /\ pc' = [pc EXCEPT ![p] = "sn_write"]
    /\ UNCHANGED <<aircraftHistory, now, historyMutex, batch, stopChan,
                   ctxDone, wg, stopPc, stoppedWhile, monFrame>>

\* shouldNotifyAircraft: the branch taken on the lookup's result
DecisionWrite(p) ==
    /\ pc[p] = "sn_write"
    /\ LET l == loc[p]
           r == IF l.exists
                THEN TrackedBranch(aircraftHistory, l.tracker, l.id, l.dist, l.t)
                ELSE FirstSightingBranch(aircraftHistory, l.id, l.dist, l.t)
       IN  /\ aircraftHistory' = r.history
           /\ loc' = [loc EXCEPT ![p].shouldNotify = r.notify,
                                 ![p].first = r.first]
    /\ pc' = [pc EXCEPT ![p] = "sn_unlock"]
    /\ UNCHANGED <<now, historyMutex, batch, stopChan, ctxDone, wg, stopPc,
                   stoppedWhile, monFrame>>

\* shouldNotifyAircraft: the deferred Unlock; processAircraft then sends or
\* returns
DecisionUnlock(p) ==
    /\ pc[p] = "sn_unlock"
    /\ historyMutex' = Unlock(historyMutex)
    /\ IF SendsNotification(config.Enabled, loc[p].shouldNotify)
       THEN /\ pc' = [pc EXCEPT ![p] = "pa_send"]
            /\ UNCHANGED <<loc, batch>>
       ELSE Return(p)
    /\ UNCHANGED <<aircraftHistory, now, stopChan, ctxDone, wg, stopPc,
                   stoppedWhile, monFrame>>

\* processAircraft: notifier.Send, which returns nil or an error
Send(p) ==
    /\ pc[p] = "pa_send"
    /\ \E err \in BOOLEAN : Return(p)
    /\ UNCHANGED <<aircraftHistory, now, historyMutex, stopChan, ctxDone, wg,
                   stopPc, stoppedWhile, monFrame>>

ProcessAircraft ==
    \E p \in Procs :
        \/ ReadPrevious(p)
        \/ ReadUnlock(p)
        \/ DecisionLock(p)
        \/ DecisionCheck(p)
        \/ DecisionWrite(p)
        \/ DecisionUnlock(p)
        \/ Send(p)

FirstPositionWaits == "select"

\* monitorLoop calls fetchAndProcess before it makes its tickers
FirstPosition == "fetch"

\* Start: wg.Add(1) and go monitorLoop(), which begins with a fetch
Start ==
    /\ pc["loop"] = "notStarted"
    /\ wg' = wg + 1
    /\ pc' = [pc EXCEPT !["loop"] = FirstPosition]
    /\ UNCHANGED <<aircraftHistory, now, historyMutex, loc, batch, stopChan,
                   ctxDone, stopPc, stoppedWhile, monFrame>>

\* fetchAndProcess: fetcher.Fetch() returns an error or a list
LoopFetch ==
    /\ pc["loop"] = "fetch"
    /\ \/ /\ pc' = [pc EXCEPT !["loop"] = "select"]
          /\ UNCHANGED batch
       \/ \E b \in Batches :
             /\ batch' = b
             /\ pc' = [pc EXCEPT !["loop"] = "process"]
    /\ UNCHANGED <<aircraftHistory, now, historyMutex, loc, stopChan, ctxDone,
                   wg, stopPc, stoppedWhile, monFrame>>

\* fetchAndProcess: the loop over acList.Aircraft
LoopProcess ==
    /\ pc["loop"] = "process"
    /\ IF batch = <<>>
       THEN /\ pc' = [pc EXCEPT !["loop"] = "select"]
            /\ UNCHANGED loc
       ELSE /\ pc' = [pc EXCEPT !["loop"] = "pa_rlock"]
            /\ loc' = [loc EXCEPT !["loop"] =
                          [NoLocals EXCEPT !.id = Head(batch).id,
                                           !.dist = Head(batch).dist]]
    /\ UNCHANGED <<aircraftHistory, now, historyMutex, batch, stopChan,
                   ctxDone, wg, stopPc, stoppedWhile, monFrame>>

StopSignalledNever == FALSE

\* monitorLoop's select has a case it can return on: ctx.Done() or stopChan
StopSignalled == ctxDone \/ stopChan = "closed"

\* monitorLoop's select takes ctx.Done() or stopChan: return, and the
\* deferred wg.Done()
LoopExit ==
    /\ pc["loop"] = "select"
    /\ StopSignalled
    /\ pc' = [pc EXCEPT !["loop"] = "exited"]
    /\ wg' = wg - 1
    /\ UNCHANGED <<aircraftHistory, now, historyMutex, loc, batch, stopChan,
                   ctxDone, stopPc, stoppedWhile, monFrame>>

\* monitorLoop's select takes ticker.C
LoopTick ==
    /\ pc["loop"] = "select"
    /\ pc' = [pc EXCEPT !["loop"] = "fetch"]
    /\ UNCHANGED <<aircraftHistory, now, historyMutex, loc, batch, stopChan,
                   ctxDone, wg, stopPc, stoppedWhile, monFrame>>

\* monitorLoop's select takes cleanupTicker.C
LoopCleanupTick ==
    /\ pc["loop"] = "select"
    /\ pc' = [pc EXCEPT !["loop"] = "cl_lock"]
    /\ UNCHANGED <<aircraftHistory, now, historyMutex, loc, batch, stopChan,
                   ctxDone, wg, stopPc, stoppedWhile, monFrame>>

\* cleanupAircraftHistory: Lock
CleanupLock ==
    /\ pc["loop"] = "cl_lock"
    /\ CanLock("loop")
    /\ historyMutex' = [historyMutex EXCEPT !.writer = "loop"]
    /\ pc' = [pc EXCEPT !["loop"] = "cl_sweep"]
    /\ UNCHANGED <<aircraftHistory, now, loc, batch, stopChan, ctxDone, wg,
                   stopPc, stoppedWhile, monFrame>>

\* cleanupAircraftHistory: the sweep
CleanupSweep ==
    /\ pc["loop"] = "cl_sweep"
    /\ aircraftHistory' = CleanupAircraftHistory(aircraftHistory, now)
    /\ pc' = [pc EXCEPT !["loop"] = "cl_unlock"]
    /\ UNCHANGED <<now, historyMutex, loc, batch, stopChan, ctxDone, wg,
                   stopPc, stoppedWhile, monFrame>>

\* cleanupAircraftHistory: the deferred Unlock
CleanupUnlock ==
    /\ pc["loop"] = "cl_unlock"
    /\ historyMutex' = Unlock(historyMutex)
    /\ pc' = [pc EXCEPT !["loop"] = "select"]
    /\ UNCHANGED <<aircraftHistory, now, loc, batch, stopChan, ctxDone, wg,
                   stopPc, stoppedWhile, monFrame>>

\* what the loop goroutine is doing at a position
Activity(position) ==
    CASE position = "select" -> "waiting"
      [] position = "exited" -> "exited"
      [] position \in {"cl_lock", "cl_sweep", "cl_unlock"} -> "cleanup"
      [] OTHER -> "fetchAndProcess"

\* Stop: close(m.stopChan)
StopClose ==
    /\ stopPc = "notCalled"
    /\ pc["loop"] # "notStarted"
    /\ stopChan' = "closed"
    /\ stopPc' = "cancel"
    /\ stoppedWhile' = Activity(pc["loop"])
    /\ UNCHANGED <<aircraftHistory, now, historyMutex, pc, loc, batch,
                   ctxDone, wg, monFrame>>

\* Stop: m.cancel()
StopCancel ==
    /\ stopPc = "cancel"
    /\ ctxDone' = TRUE
    /\ stopPc' = "wait"
    /\ UNCHANGED <<aircraftHistory, now, historyMutex, pc, loc, batch,
                   stopChan, wg, stoppedWhile, monFrame>>

\* Stop: m.wg.Wait(), then Stop returns
StopWait ==
    /\ stopPc = "wait"
    /\ WaitMayReturn
    /\ stopPc' = "returned"
    /\ UNCHANGED <<aircraftHistory, now, historyMutex, pc, loc, batch,
                   stopChan, ctxDone, wg, stoppedWhile, monFrame>>

\* time passes
ClockAdvance ==
    /\ now + LongPause <= MaxTime
    /\ now' = now + LongPause
    /\ UNCHANGED <<aircraftHistory, monVars, monFrame>>

\* the loop goroutine, a call of Stop and the clock
NextLife ==
    \/ ProcessAircraft
    \/ Start
    \/ LoopFetch
    \/ LoopProcess
    \/ LoopExit
    \/ LoopTick
    \/ LoopCleanupTick
    \/ CleanupLock
    \/ CleanupSweep
    \/ CleanupUnlock
    \/ StopClose
    \/ StopCancel
    \/ StopWait
    \/ ClockAdvance

SpecLife == InitMon /\ [][NextLife]_vars

\* one Monitor configuration, for the runs that are followed to their end
InitStop ==
    /\ InitMon
    /\ config = [Enabled |-> TRUE, NotifyOnCloserOnly |-> TRUE,
                 ReNotifyAfter |-> 0]

\* the steps of the loop goroutine inside a cycle or a cleanup, and of a
\* processAircraft call: each Fetch, Send and lock operation it is in ends
LoopRuns ==
    \/ ProcessAircraft
    \/ LoopFetch
    \/ LoopProcess
    \/ CleanupLock
    \/ CleanupSweep
    \/ CleanupUnlock

\* The goroutines are scheduled: a step that stays possible is taken.  A
\* select with several ready cases picks one of them at random, so a case
\* that is ready every time the loop comes back to its select is taken in
\* the end, however often the tickers are ready too.
SpecStop ==
    /\ InitStop
    /\ [][NextLife]_vars
    /\ WF_vars(LoopRuns)
    /\ SF_vars(LoopExit)
    /\ WF_vars(StopCancel)
    /\ WF_vars(StopWait)

\* C39: a call of Stop after Start returns in the end: the loop finishes the
\* cycle or cleanup it is in, sees the stop signal at its select and exits,
\* even though a poll tick and a cleanup tick are ready at every select.
C39_StopReturns ==
    (stopPc # "notCalled") ~> (stopPc = "returned" /\ pc["loop"] = "exited")

\* Stop was called during a cleanup, the loop went through a select with
\* both tickers ready, and Stop has returned
C39_Witness ==
    /\ stopPc = "returned"
    /\ stoppedWhile = "cleanup"
    /\ pc["loop"] = "exited"

\* the loop goroutine and a direct caller of processAircraft, never stopped
NextRace ==
    \/ CallProcessAircraft
    \/ ProcessAircraft
    \/ Start
    \/ LoopFetch
    \/ LoopProcess
    \/ LoopTick
    \/ LoopCleanupTick
    \/ CleanupLock
    \/ CleanupSweep
    \/ CleanupUnlock

SpecRace == InitMon /\ [][NextRace]_vars

\* C6: between a call's lookup of its identifier and the write that follows it,
\* the map entry does not change: a call that found no tracker creates it while
\* there is still none, so overlapping calls for an unseen identifier never
\* both take the first-sighting branch.
C6_CheckAndCreateAtomic ==
    \A p \in Procs :
        pc[p] = "sn_write"
            => (loc[p].exists <=> loc[p].id \in DOMAIN aircraftHistory)

\* the direct caller has found no tracker and is about to create it, while the
\* loop's call for the same identifier waits for the lock
C6_Witness ==
    /\ pc["caller"] = "sn_write"
    /\ ~loc["caller"].exists
    /\ pc["loop"] = "sn_lock"
    /\ loc["loop"].id = loc["caller"].id
    /\ loc["loop"].previousDistance = 0

\* C22: a task that is executing Fetcher.Fetch or Notifier.Send for the
\* Monitor holds neither the read lock nor the write lock of the history.
C22_NoLockAcrossCollaboratorCall ==
    \A p \in Procs :
        pc[p] \in {"fetch", "pa_send"}
            => /\ historyMutex.writer # p
               /\ p \notin historyMutex.readers

\* the loop is inside Notifier.Send while the direct caller holds the write
\* lock
C22_Witness ==
    /\ pc["loop"] = "pa_send"
    /\ historyMutex.writer = "caller"
    /\ pc["caller"] = "sn_write"

\* C27: processAircraft goes on to Notifier.Send exactly when the decision is
\* to notify and notifications are enabled, Send is reached in no other way,
\* and with notifications disabled no task is ever inside Send.
C27_SendIffNotifyAndEnabled ==
    [][\A p \in Procs :
          /\ (pc[p] = "sn_unlock" /\ pc'[p] # "sn_unlock")
                => (pc'[p] = "pa_send"
                      <=> (config.Enabled /\ loc[p].shouldNotify))
          /\ (pc'[p] = "pa_send" /\ pc[p] # "pa_send")
                => pc[p] = "sn_unlock"
          /\ ~config.Enabled => pc'[p] # "pa_send"]_vars

\* with notifications enabled, the direct caller is inside Send for a
\* repeated sighting whose decision was to notify
C27_Witness ==
    /\ pc["caller"] = "pa_send"
    /\ config.Enabled
    /\ loc["caller"].shouldNotify
    /\ ~loc["caller"].first

\* C33: the previousDistance a task passes to Notifier.Send is the
\* LastDistance its notify decision compared with, and 0 when the decision
\* took the first-sighting branch, whatever other calls and sweeps ran
\* between the task's read-locked lookup and its write-locked decision.
C33_PreviousDistanceIsComparedDistance ==
    \A p \in Procs :
        pc[p] = "pa_send"
            => loc[p].previousDistance
                 = IF loc[p].first THEN 0 ELSE loc[p].tracker.LastDistance

\* C7: once Stop has returned, the loop goroutine has exited: it is in no
\* fetchAndProcess and no cleanup, holds no lock, and starts nothing again.
C7_StopWaitsForLoop ==
    stopPc = "returned"
        => /\ pc["loop"] = "exited"
           /\ historyMutex.writer # "loop"
           /\ "loop" \notin historyMutex.readers
           /\ wg = 0

\* Stop was called while a fetchAndProcess cycle was running, and has returned
C7_Witness ==
    /\ stopPc = "returned"
    /\ stoppedWhile = "fetchAndProcess"

(***************************************************************************)
(* fetchAndProcess: the poll cycles of the loop goroutine, one after       *)
(* another, with no other caller of processAircraft.                       *)
(***************************************************************************)

\* what fetcher.Fetch() may return: an error or none, together with a list
FetchResults == [err : BOOLEAN, list : Batches]

FetchFailedNever(r) == FALSE

\* fetchAndProcess returns its error when Fetch returned one
FetchFailed(r) == r.err

LoopContinuesUnlessError(err) == ~err

\* the range loop logs an error of processAircraft and goes on
LoopContinues(err) == TRUE

AfterSendRollsBack(before, written, sendErr) ==
    IF sendErr THEN before ELSE written

\* processAircraft after notifier.Send: a Send error is wrapped and returned,
\* and the history map stays as shouldNotifyAircraft wrote it
AfterSend(before, written, sendErr) == written

cycleFrame == <<config, now, last, sightVars, fetchVars, monVars, identVars,
                queryVars, restVars>>

\* fetchAndProcess: the call of fetcher.Fetch()
CycleFetch ==
    /\ cpc = "idle"
    /\ \E r \in FetchResults :
         /\ fetched' = r
         /\ IF FetchFailed(r)
            THEN cpc' = "idle" /\ cycleResult' = "error"
            ELSE cpc' = "process" /\ cycleResult' = "none"
    /\ processed' = <<>>
    /\ sends' = <<>>
    /\ paErr' = <<>>
    /\ UNCHANGED <<aircraftHistory, cycleFrame>>

\* fetchAndProcess: processAircraft for the next aircraft of the list, with
\* the notifier.Send it makes when notifications are enabled and the decision
\* is to notify
CycleProcessAircraft ==
    /\ cpc = "process"
    /\ Len(processed) < Len(fetched.list)
    /\ LET i == Len(processed) + 1
           o == fetched.list[i]
           r == ShouldNotifyAircraft(aircraftHistory, o.id, o.dist, now)
           sent == SendsNotification(config.Enabled, r.notify)
       IN  /\ processed' = Append(processed, o)
           /\ \E sendErr \in BOOLEAN :
                LET err == sent /\ sendErr
                IN  /\ aircraftHistory' =
                          AfterSend(aircraftHistory, r.history, err)
                    /\ sends' = IF sent
                                THEN Append(sends, [entry |-> i, id |-> o.id,
                                                    err |-> sendErr])
                                ELSE sends
                    /\ paErr' = Append(paErr, err)
                    /\ IF LoopContinues(err)
                       THEN UNCHANGED <<cpc, cycleResult>>
                       ELSE cpc' = "idle" /\ cycleResult' = "error"
    /\ UNCHANGED <<fetched, cycleFrame>>

\* fetchAndProcess: return nil after the last aircraft
CycleReturn ==
    /\ cpc = "process"
    /\ Len(processed) = Len(fetched.list)
    /\ cpc' = "idle"
    /\ cycleResult' = "nil"
    /\ UNCHANGED <<aircraftHistory, fetched, processed, sends, paErr,
                   cycleFrame>>

NextCycle == CycleFetch \/ CycleProcessAircraft \/ CycleReturn \/ ClockAdvance

SpecCycle == InitMon /\ [][NextCycle]_vars

(***************************************************************************)
(* The loop goroutine with each fetchAndProcess cycle and each cleanup     *)
(* sweep as one step, and a log of what it has done.                       *)
(***************************************************************************)

\* fetchAndProcess's range loop: the history after processAircraft for each
\* aircraft of the list in order, and whether a Send was due
RECURSIVE ProcessAll(_, _, _)
ProcessAll(history, list, t) ==
    IF list = <<>>
    THEN [history |-> history, sent |-> FALSE]
    ELSE LET r == ShouldNotifyAircraft(history, Head(list).id,
                                       Head(list).dist, t)
             rest == ProcessAll(r.history, Tail(list), t)
         IN  [history |-> rest.history,
              sent |-> rest.sent
                       \/ SendsNotification(config.Enabled, r.notify)]

AfterCycleReturnsOnError(err) == IF err THEN "exited" ELSE "select"

\* monitorLoop logs an error of fetchAndProcess and goes (back) to its select
AfterCycle(err) == "select"

\* what Fetch returns to the loop: an error, or a list of at most one aircraft
LoopResults == {r \in FetchResults : Len(r.list) <= 1}

loopFrame == <<config, last, sightVars, fetchVars, cycleVars, identVars,
               queryVars, decoding, heading, swept, getCall>>

\* one fetchAndProcess call of monitorLoop: Fetch fails, or every aircraft
\* of the list is processed, with or without a failing Send
LoopCycle ==
    /\ pc["loop"] = "fetch"
    /\ Len(loopLog) < MaxLog
    /\ \E r \in LoopResults, sendErr \in BOOLEAN :
         LET done == ProcessAll(aircraftHistory, r.list, now)
         IN  IF FetchFailed(r)
             THEN /\ loopLog' = Append(loopLog, "fetchError")
                  /\ pc' = [pc EXCEPT !["loop"] = AfterCycle(TRUE)]
                  /\ UNCHANGED aircraftHistory
             ELSE /\ aircraftHistory' = done.history
                  /\ loopLog' = Append(loopLog,
                                       IF done.sent /\ sendErr
                                       THEN "aircraftError"
                                       ELSE "nil")
                  /\ pc' = [pc EXCEPT !["loop"] = AfterCycle(FALSE)]
    /\ UNCHANGED <<now, historyMutex, loc, batch, stopChan, ctxDone, wg,
                   stopPc, stoppedWhile, loopFrame>>

\* monitorLoop's select takes cleanupTicker.C: one cleanupAircraftHistory call
LoopCleanup ==
    /\ pc["loop"] = "select"
    /\ Len(loopLog) < MaxLog
    /\ aircraftHistory' = CleanupAircraftHistory(aircraftHistory, now)
    /\ loopLog' = Append(loopLog, "cleanup")
    /\ UNCHANGED <<now, monVars, loopFrame>>

NextLoop ==
    \/ Start
    \/ LoopCycle
    \/ LoopTick
    \/ LoopCleanup
    \/ LoopExit
    \/ StopClose
    \/ StopCancel
    \/ StopWait
    \/ ClockAdvance

SpecLoop == InitMon /\ [][NextLoop]_vars

\* the log entries of cycles that ended in an error
CycleErrors == {"fetchError", "aircraftError"}

\* C23: a cycle that ends in an error leaves the loop at its select, where
\* the next tick starts another cycle, which can run; the loop exits only
\* after Stop was called.
C23_ErrorDoesNotStopLoop ==
    /\ (loopLog # <<>> /\ loopLog[Len(loopLog)] \in CycleErrors)
          => /\ pc["loop"] \in {"select", "fetch", "exited"}
             /\ pc["loop"] = "select" => ENABLED LoopTick
             /\ (pc["loop"] = "fetch" /\ Len(loopLog) < MaxLog)
                   => ENABLED LoopCycle
    /\ pc["loop"] = "exited" => stopPc # "notCalled"

\* without a Stop, a ticked cycle has failed and the cycle of the next tick
\* has run
C23_Witness ==
    /\ stopPc = "notCalled"
    /\ Len(loopLog) = 3
    /\ loopLog[2] \in CycleErrors
    /\ loopLog[3] = "nil"

\* C24: the loop's first act after Start is a cycle: it reaches its select,
\* where poll ticks and cleanup ticks are taken, only after a cycle has run,
\* and whatever the result of that cycle the select takes the next poll tick.
C24_FirstCycleAtOnce ==
    /\ loopLog # <<>> => loopLog[1] # "cleanup"
    /\ pc["loop"] \in {"select", "exited"} => loopLog # <<>>
    /\ (pc["loop"] = "notStarted") => ~ENABLED LoopTick /\ ~ENABLED LoopCleanup
    /\ (Len(loopLog) = 1 /\ pc["loop"] = "select") => ENABLED LoopTick

\* the first cycle failed in Fetch, and a ticked cycle has run after it
C24_Witness ==
    /\ Len(loopLog) >= 2
    /\ loopLog[1] = "fetchError"
    /\ loopLog[2] = "nil"

\* C11: processAircraft returns an error for exactly the aircraft whose Send
\* returned one; the aircraft of the list are processed in the list's order,
\* and a fetchAndProcess call whose Fetch succeeded returns nil after having
\* processed every one of them, whatever their Sends returned.
C11_NotifierErrorSkipsNothing ==
    /\ Len(paErr) = Len(processed)
    /\ Len(processed) <= Len(fetched.list)
    /\ processed = SubSeq(fetched.list, 1, Len(processed))
    /\ \A i \in 1..Len(paErr) :
          paErr[i] <=> \E k \in 1..Len(sends) :
                           sends[k].entry = i /\ sends[k].err
    /\ (cpc = "idle" /\ ~fetched.err /\ cycleResult # "none")
          => (cycleResult = "nil" /\ processed = fetched.list)

\* a cycle has returned nil after the first aircraft's Send failed and the
\* second aircraft was processed and notified
C11_Witness ==
    /\ cycleResult = "nil"
    /\ paErr = <<TRUE, FALSE>>
    /\ Len(sends) = 2

\* C37: when notifier.Send fails for an observation, the tracker that
\* shouldNotifyAircraft created or updated for it stays as written, with the
\* observation's distance and time and Notified true, exactly as after a Send
\* that succeeded; the Send is attempted once, and never again for this entry.
C37_FailedSendKeepsTracker ==
    [][(cpc = "process" /\ Len(processed') = Len(processed) + 1)
          => LET i == Len(processed')
                 o == processed'[i]
                 r == ShouldNotifyAircraft(aircraftHistory, o.id, o.dist, now)
             IN  /\ aircraftHistory' = r.history
                 /\ Len(sends') <= Len(sends) + 1
                 /\ \A k \in 1..Len(sends) : sends'[k] = sends[k]
                 /\ \A k \in 1..Len(sends) : sends[k].entry < i
                 /\ paErr'[i]
                       => /\ Len(sends') = Len(sends) + 1
                          /\ sends'[Len(sends')] =
                                [entry |-> i, id |-> o.id, err |-> TRUE]
                          /\ aircraftHistory'[o.id] =
                                [LastDistance |-> o.dist,
                                 LastSeen     |-> now,
                                 Notified     |-> TRUE]]_vars

\* the Send for the first aircraft of a list failed, and the second entry,
\* the same aircraft at the same distance, was processed with no Send
C37_Witness ==
    /\ Len(processed) = 2
    /\ processed[1] = processed[2]
    /\ paErr = <<TRUE, FALSE>>
    /\ Len(sends) = 1
    /\ sends[1].err
    /\ aircraftHistory[processed[1].id].Notified

\* C12: a fetchAndProcess call whose Fetch returns an error returns an error,
\* calls processAircraft for no aircraft, sends no notification and leaves the
\* history map as it was, keys and trackers alike.
C12_FetchErrorLeavesHistory ==
    [][fetched'.err
        => /\ cpc' = "idle"
           /\ cycleResult' = "error"
           /\ processed' = <<>>
           /\ sends' = <<>>
           /\ aircraftHistory' = aircraftHistory]_vars

\* Fetch has returned an error together with a list, in a cycle that began
\* with both identifiers tracked
C12_Witness ==
    /\ fetched.err
    /\ fetched.list # <<>>
    /\ cycleResult = "error"
    /\ DOMAIN aircraftHistory = IDs

\* C13: within one fetchAndProcess call, Send is invoked at most once for each
\* identifier.
C13_OneSendPerIdentifier ==
    \A j, k \in 1..Len(sends) :
        j # k => sends[j].id # sends[k].id

(***************************************************************************)
(* getAircraftIdentifier: the key under which processAircraft tracks each  *)
(* entry of the feed.  An airframe is what flies; the feed reports it      *)
(* poll after poll with the fields it has at that moment.                  *)
(***************************************************************************)

Alts == 0..MaxAlt

\* what there is to know of each airframe: the airliner has an ICAO code, a
\* callsign and a registration, the glider has none of them
Identity(p) ==
    IF p = "airliner"
    THEN [Icao |-> "4CA2D1", Call |-> "RYR12", Type |-> "B738", Reg |-> "EI-DCL"]
    ELSE [Icao |-> "", Call |-> "", Type |-> "GLID", Reg |-> ""]

\* the entries with which the feed may report an airframe: each string field
\* is omitempty, the altitude is the one of the moment
Reports(p) ==
    {[Icao |-> i, Call |-> c, Type |-> Identity(p).Type, Alt |-> a, Reg |-> g] :
        i \in {"", Identity(p).Icao}, c \in {"", Identity(p).Call},
        a \in Alts, g \in {"", Identity(p).Reg}}

Aircraft == UNION {Reports(p) : p \in Airframes}

getAircraftIdentifierCallFirst(ac) ==
    IF ac.Call # "" THEN ac.Call
    ELSE IF ac.Icao # "" THEN ac.Icao
    ELSE ac.Type \o "_" \o ToString(ac.Alt)

\* fmt.Sprintf("%s_%d", ac.Type, ac.Alt) when ICAO and callsign are empty
getAircraftIdentifier(ac) ==
    IF ac.Icao # "" THEN ac.Icao
    ELSE IF ac.Call # "" THEN ac.Call
    ELSE ac.Type \o "_" \o ToString(ac.Alt)

\* processAircraft for an entry of the feed that reports airframe p; no
\* observer location is configured, so calculateDistance returns 0
ProcessReport ==
    /\ \E p \in Airframes :
         \E ac \in Reports(p) :
            LET aircraftID == getAircraftIdentifier(ac)
                r == ShouldNotifyAircraft(aircraftHistory, aircraftID, 0, now)
            IN  /\ aircraftHistory' = r.history
                /\ identCall' = [op |-> "report", airframe |-> p, ac |-> ac,
                                 key |-> aircraftID]
                /\ keysOf' = [keysOf EXCEPT ![p] = @ \cup {aircraftID}]
    /\ UNCHANGED <<config, now, last, sightVars, fetchVars, monVars,
                   cycleVars, queryVars, restVars>>

\* re-notification by time plays no part in the choice of the key
InitIdent == InitTrack /\ config.ReNotifyAfter = 0

NextIdent == ProcessReport

SpecIdent == InitIdent /\ [][NextIdent]_vars

\* C14: the reports of one airframe always resolve to one key, so the history
\* map never holds two trackers for one airframe.
C14_OneKeyPerAirframe ==
    \A p \in Airframes :
        /\ Cardinality(keysOf[p]) <= 1
        /\ Cardinality(keysOf[p] \cap DOMAIN aircraftHistory) <= 1

\* C15: the key is the ICAO code when that is not empty, else the callsign
\* when that is not empty, else the type, an underscore and the altitude in
\* decimal; entries that agree on these four fields get the same key.
C15_IdentifierPrecedence ==
    identCall.op = "report"
        => LET ac == identCall.ac
               key == identCall.key
           IN  /\ ac.Icao # "" => key = ac.Icao
               /\ (ac.Icao = "" /\ ac.Call # "") => key = ac.Call
               /\ (ac.Icao = "" /\ ac.Call = "")
                     => key = ac.Type \o "_" \o ToString(ac.Alt)
               /\ \A b \in Aircraft :
                     (/\ b.Icao = ac.Icao /\ b.Call = ac.Call
                      /\ b.Type = ac.Type /\ b.Alt = ac.Alt)
                        => getAircraftIdentifier(b) = key

\* the airliner reported without its ICAO code is tracked under its callsign,
\* next to the tracker of the glider's synthetic key
C15_Witness ==
    /\ identCall.op = "report"
    /\ identCall.ac.Icao = "" /\ identCall.ac.Reg # ""
    /\ identCall.key = "RYR12"
    /\ "GLID_1" \in DOMAIN aircraftHistory

(***************************************************************************)
(* The filters and the observer location: NewMonitor hands the same        *)
(* configuration to the Fetcher, which builds the query of each feed       *)
(* request from it, and to the Monitor, which measures each aircraft       *)
(* against it.  Coordinates are whole degrees, distances whole kilometres. *)
(***************************************************************************)

Names == {"", "RYR"}
Altitudes == {-1, 0, 1}
Coordinates == {-1, 0, 1}
Distances == {-1, 0, 1}

\* config.FilterConfig
FilterConfigs ==
    [AircraftType : Names, MinAltitude : Altitudes, MaxAltitude : Altitudes,
     Military : BOOLEAN, Operator : Names, FlightNumber : Names]

\* config.LocationConfig
LocationConfigs ==
    [Latitude : Coordinates, Longitude : Coordinates, MaxDistance : Distances]

\* validateConfig: what it accepts of the filters and the location
ValidConfig(f, l) ==
    /\ (f.MinAltitude > 0 /\ f.MaxAltitude > 0)
          => ~(f.MinAltitude > f.MaxAltitude)
    /\ (l.Latitude # 0 \/ l.Longitude # 0)
          => /\ ~(l.Latitude < -90 \/ l.Latitude > 90)
             /\ ~(l.Longitude < -180 \/ l.Longitude > 180)

\* the Fetcher after NewMonitor's SetFilters and SetLocation
ConfiguredFetcher(f, l) ==
    [AircraftType |-> f.AircraftType, MinAltitude |-> f.MinAltitude,
     MaxAltitude |-> f.MaxAltitude, Military |-> f.Military,
     Operator |-> f.Operator, FlightNumber |-> f.FlightNumber,
     UserLat |-> l.Latitude, UserLong |-> l.Longitude,
     MaxDistance |-> l.MaxDistance]

\* strconv.Itoa
Itoa(n) == ToString(n)

\* strconv.FormatFloat(x, 'f', -1, 64) of a whole number
FormatFloat(x) == ToString(x)

NoParams == [name \in {} |-> ""]

\* q.Set(name, value) under a condition
SetIf(cond, name, value) == IF cond THEN name :> value ELSE NoParams

AltitudeSetNonZero(v) == v # 0

\* Fetch sends an altitude filter when its value is positive
AltitudeSet(v) == v > 0

\* Fetch's test of the observer location
LocationSet(lat, long) == lat # 0 /\ long # 0

\* the filter and location parameters Fetch puts in the query
FeedQuery(f) ==
    SetIf(f.AircraftType # "", "fTypQ", f.AircraftType)
    @@ SetIf(AltitudeSet(f.MinAltitude), "fAltL", Itoa(f.MinAltitude))
    @@ SetIf(AltitudeSet(f.MaxAltitude), "fAltU", Itoa(f.MaxAltitude))
    @@ SetIf(f.Military, "fMilQ", "1")
    @@ SetIf(f.Operator # "", "fOpQ", f.Operator)
    @@ SetIf(f.FlightNumber # "", "fCallQ", f.FlightNumber)
    @@ (IF LocationSet(f.UserLat, f.UserLong)
        THEN SetIf(TRUE, "lat", FormatFloat(f.UserLat))
             @@ SetIf(TRUE, "lng", FormatFloat(f.UserLong))
             @@ SetIf(f.MaxDistance > 0, "fDstU", FormatFloat(f.MaxDistance))
        ELSE NoParams)

\* calculateDistance and calculateBearing return 0 without calling geo when
\* latitude and longitude are both 0
HasLocation(l) == ~(l.Latitude = 0 /\ l.Longitude = 0)

InitQuery ==
    /\ creds = [Username |-> "", Password |-> ""]
    /\ NewFetcher
    /\ NewMonitor
    /\ CycleIdle
    /\ NoReports
    /\ NoFeedRequest
    /\ RestIdle
    /\ \E f \in FilterConfigs, l \in LocationConfigs :
         /\ ValidConfig(f, l)
         /\ fetcher = ConfiguredFetcher(f, l)
         /\ location = l
    /\ config = [Enabled |-> TRUE, NotifyOnCloserOnly |-> TRUE,
                 ReNotifyAfter |-> 0]
    /\ aircraftHistory = EmptyHistory
    /\ now = 0
    /\ last = NoCall
    /\ pollInterval = 1
    /\ prevSighting = NoSightings
    /\ notifiedAt = NoSightings
    /\ seen = {}

queryFrame == <<trackVars, sightVars, fetchVars, monVars, cycleVars,
                identVars, restVars, fetcher, location>>

\* Fetch: the query of the feed request
BuildRequest ==
    /\ query' = [built |-> TRUE, params |-> FeedQuery(fetcher)]
    /\ UNCHANGED <<measured, queryFrame>>

\* processAircraft: calculateDistance and calculateBearing for an aircraft
CalculateDistance ==
    /\ measured' = IF HasLocation(location) THEN "geo" ELSE "zero"
    /\ UNCHANGED <<query, queryFrame>>

NextQuery == BuildRequest \/ CalculateDistance

SpecQuery == InitQuery /\ [][NextQuery]_vars

\* C19: the feed request carries lat and lng exactly when the Monitor
\* measures distance and bearing against the observer location.
C19_LocationFilterIffMeasured ==
    (query.built /\ measured # "none")
        => (({"lat", "lng"} \subseteq DOMAIN query.params)
               <=> measured = "geo")

\* C20 as stated: each filter parameter is in the query exactly when its
\* configured value is not the default, and the military parameter is "1".
C20_FilterIffNonDefault ==
    query.built
        => LET sent == DOMAIN query.params
           IN  /\ "fTypQ" \in sent <=> fetcher.AircraftType # ""
               /\ "fAltL" \in sent <=> fetcher.MinAltitude # 0
               /\ "fAltU" \in sent <=> fetcher.MaxAltitude # 0
               /\ "fMilQ" \in sent <=> fetcher.Military
               /\ "fMilQ" \in sent => query.params["fMilQ"] = "1"
               /\ "fOpQ" \in sent <=> fetcher.Operator # ""
               /\ "fCallQ" \in sent <=> fetcher.FlightNumber # ""
               /\ "fDstU" \in sent <=> fetcher.MaxDistance # 0

\* C20 amended: the type, operator and callsign parameters are in the query
\* exactly when their strings are not empty, the military parameter exactly
\* when the flag is true and then as "1", each altitude parameter exactly when
\* its value is greater than zero, and the maximum distance exactly when it is
\* greater than zero and lat and lng are in the query; each carries the
\* configured value.
C20_FilterWhenSet ==
    query.built
        => LET sent == DOMAIN query.params
               q == query.params
           IN  /\ "fTypQ" \in sent <=> fetcher.AircraftType # ""
               /\ "fTypQ" \in sent => q["fTypQ"] = fetcher.AircraftType
               /\ "fAltL" \in sent <=> fetcher.MinAltitude > 0
               /\ "fAltL" \in sent => q["fAltL"] = ToString(fetcher.MinAltitude)
               /\ "fAltU" \in sent <=> fetcher.MaxAltitude > 0
               /\ "fAltU" \in sent => q["fAltU"] = ToString(fetcher.MaxAltitude)
               /\ "fMilQ" \in sent <=> fetcher.Military
               /\ "fMilQ" \in sent => q["fMilQ"] = "1"
               /\ "fOpQ" \in sent <=> fetcher.Operator # ""
               /\ "fOpQ" \in sent => q["fOpQ"] = fetcher.Operator
               /\ "fCallQ" \in sent <=> fetcher.FlightNumber # ""
               /\ "fCallQ" \in sent => q["fCallQ"] = fetcher.FlightNumber
               /\ "fDstU" \in sent
                     <=> (fetcher.MaxDistance > 0 /\ {"lat", "lng"} \subseteq sent)
               /\ "fDstU" \in sent => q["fDstU"] = ToString(fetcher.MaxDistance)

\* a request built for a military filter, a negative minimum altitude, a
\* maximum altitude of 1 and a maximum distance of 1 with no location
C20_Witness ==
    /\ query.built
    /\ fetcher.Military /\ query.params["fMilQ"] = "1"
    /\ fetcher.MinAltitude = -1 /\ "fAltL" \notin DOMAIN query.params
    /\ "fAltU" \in DOMAIN query.params
    /\ fetcher.MaxDistance = 1 /\ "fDstU" \notin DOMAIN query.params

(***************************************************************************)
(* The tracking engine with sweeps, and a record of the identifiers a      *)
(* sweep has removed.                                                      *)
(***************************************************************************)

sweepFrame == <<sightVars, fetchVars, monVars, cycleVars, identVars,
                queryVars, loopLog, decoding, heading, getCall>>

\* processAircraft's call of shouldNotifyAircraft for one aircraft
SweepSighting ==
    \E id \in IDs, d \in Dists :
        /\ ObserveCall(id, d)
        /\ swept' = [swept EXCEPT ![id] = IF @ = "swept" THEN "resighted"
                                                         ELSE "no"]
        /\ UNCHANGED sweepFrame

\* one call cleanupAircraftHistory()
SweepCleanup ==
    LET after == CleanupAircraftHistory(aircraftHistory, now)
    IN  /\ aircraftHistory' = after
        /\ last' = [NoCall EXCEPT !.op = "cleanup",
                       !.removed = Cardinality(DOMAIN aircraftHistory)
                                   - Cardinality(DOMAIN after)]
        /\ swept' = [id \in IDs |->
                        IF id \in DOMAIN aircraftHistory \ DOMAIN after
                        THEN "swept" ELSE swept[id]]
        /\ UNCHANGED <<config, now, sweepFrame>>

NextSweep == SweepSighting \/ SweepCleanup \/ ClockAdvance

SpecSweep == InitTrack /\ [][NextSweep]_vars

\* C34: the first observation of an identifier after a sweep removed its
\* tracker takes the first-sighting branch: it notifies whatever its distance
\* and the mode, and leaves a new tracker with its distance and time; until
\* then the identifier has no tracker.
C34_SweptIsFirstSightingAgain ==
    [][\A id \in IDs :
          /\ (swept[id] = "swept" /\ last'.op = "observe" /\ last'.id = id)
                => /\ last'.first /\ last'.notify
                   /\ aircraftHistory'[id]
                        = [LastDistance |-> last'.dist, LastSeen |-> now,
                           Notified |-> TRUE]
          /\ swept'[id] = "swept" => id \notin DOMAIN aircraftHistory']_vars

\* in closer-only mode without a re-notify interval, an identifier first seen
\* overhead and then removed by a sweep has been seen again at the greatest
\* distance and has notified
C34_Witness ==
    /\ last.op = "observe" /\ last.first /\ last.notify
    /\ swept[last.id] = "resighted"
    /\ last.dist = MaxDist
    /\ config.NotifyOnCloserOnly /\ config.ReNotifyAfter = 0
    /\ aircraftHistory[last.id].LastSeen = now

(***************************************************************************)
(* The polymorphic fields of an aircraft record: a JSON value, written as  *)
(* its characters, and what each field's UnmarshalJSON makes of it.        *)
(***************************************************************************)

Chars == {"0", "7", "a", "-", "."}

\* the JSON literals, each one piece of text
Literals == {<<"null">>, <<"true">>, <<"{}">>}

\* the bytes handed to json.Unmarshal: text between quotes, or bare text
JsonInputs ==
    [quoted : BOOLEAN, text : SeqsUpTo(Chars, MaxText)]
    \cup [quoted : {FALSE}, text : Literals]

DigitChars == {ToString(d) : d \in 0..9}

DigitValue(c) == CHOOSE d \in 0..9 : ToString(d) = c

IsDigits(t) == t # <<>> /\ \A i \in 1..Len(t) : t[i] \in DigitChars

\* the digits of a JSON number's integer part: no leading zero
IsJsonInt(t) == IsDigits(t) /\ (Len(t) = 1 \/ t[1] # "0")

Unsigned(t) == IF t # <<>> /\ t[1] = "-" THEN Tail(t) ELSE t

\* the JSON number grammar, without exponents
IsJsonNumber(t) ==
    LET body == Unsigned(t)
    IN  \/ IsJsonInt(body)
        \/ \E k \in 2..(Len(body) - 1) :
              /\ body[k] = "."
              /\ IsJsonInt(SubSeq(body, 1, k - 1))
              /\ IsDigits(SubSeq(body, k + 1, Len(body)))

\* a JSON number that is an integer
IsJsonInteger(t) == IsJsonInt(Unsigned(t))

\* json.Unmarshal's first pass: is the input valid JSON
checkValid(data) ==
    \/ data.quoted
    \/ data.text \in Literals
    \/ IsJsonNumber(data.text)

IsNull(data) == ~data.quoted /\ data.text = <<"null">>

RECURSIVE DecimalValue(_)
DecimalValue(t) ==
    IF t = <<>> THEN 0
    ELSE 10 * DecimalValue(SubSeq(t, 1, Len(t) - 1)) + DigitValue(t[Len(t)])

\* strconv.ParseInt of a signed run of digits
ParseInt(t) ==
    IF t[1] = "-" THEN 0 - DecimalValue(Tail(t)) ELSE DecimalValue(t)

\* strconv.Atoi: an optional sign and at least one digit, leading zeros
\* allowed
Atoi(t) ==
    IF IsDigits(Unsigned(t))
    THEN [err |-> FALSE, n |-> ParseInt(t)]
    ELSE [err |-> TRUE, n |-> 0]

\* the text of a string value
RECURSIVE Join(_)
Join(t) == IF t = <<>> THEN "" ELSE Head(t) \o Join(Tail(t))

\* json.Unmarshal(data, &strVal) of valid JSON: a string decodes, null leaves
\* strVal empty without an error, anything else is an error
UnmarshalString(data) ==
    IF data.quoted THEN [err |-> FALSE, strVal |-> data.text]
    ELSE IF IsNull(data) THEN [err |-> FALSE, strVal |-> <<>>]
    ELSE [err |-> TRUE, strVal |-> <<>>]

\* json.Unmarshal(data, &intVal) of valid JSON: an integer decodes, null
\* leaves intVal zero without an error, anything else is an error
UnmarshalInt(data) ==
    IF ~data.quoted /\ IsJsonInteger(data.text)
    THEN [err |-> FALSE, intVal |-> ParseInt(data.text)]
    ELSE IF IsNull(data) THEN [err |-> FALSE, intVal |-> 0]
    ELSE [err |-> TRUE, intVal |-> 0]

SqkValueEmptyIsError(data) ==
    LET str == UnmarshalString(data)
        num == UnmarshalInt(data)
    IN  IF ~str.err
        THEN [err |-> Atoi(str.strVal).err, value |-> Atoi(str.strVal).n]
        ELSE [err |-> num.err, value |-> num.intVal]

\* SqkValue.UnmarshalJSON
SqkValueUnmarshalJSON(data) ==
    LET str == UnmarshalString(data)
        num == UnmarshalInt(data)
    IN  IF ~str.err
        THEN IF str.strVal = <<>>
             THEN [err |-> FALSE, value |-> 0]
             ELSE [err |-> Atoi(str.strVal).err, value |-> Atoi(str.strVal).n]
        ELSE [err |-> num.err, value |-> num.intVal]

CategoricalUnmarshalJSONAsWritten(data) ==
    LET str == UnmarshalString(data)
        num == UnmarshalInt(data)
    IN  IF ~str.err THEN [err |-> FALSE, value |-> Join(str.strVal)]
        ELSE IF ~num.err THEN [err |-> FALSE, value |-> Join(data.text)]
        ELSE [err |-> TRUE, value |-> ""]

\* the UnmarshalJSON of WTCValue, SpeciesValue, EngTypeValue and
\* EngMountValue, which differ in the type's name only: the string, else the
\* integer's strconv.Itoa, else an error
CategoricalUnmarshalJSON(data) ==
    LET str == UnmarshalString(data)
        num == UnmarshalInt(data)
    IN  IF ~str.err THEN [err |-> FALSE, value |-> Join(str.strVal)]
        ELSE IF ~num.err THEN [err |-> FALSE, value |-> Itoa(num.intVal)]
        ELSE [err |-> TRUE, value |-> ""]

Categorical == {"WTC", "Species", "EngType", "EngMount"}

Fields == {"Sqk"} \cup Categorical

\* json.Unmarshal(data, &field): invalid JSON is an error before any
\* UnmarshalJSON is called and leaves the field at its zero value
Unmarshal(field, data) ==
    IF ~checkValid(data)
    THEN [err |-> TRUE, value |-> IF field = "Sqk" THEN 0 ELSE ""]
    ELSE IF field = "Sqk"
         THEN SqkValueUnmarshalJSON(data)
         ELSE CategoricalUnmarshalJSON(data)

InitDecode ==
    /\ creds = [Username |-> "", Password |-> ""]
    /\ NewFetcher
    /\ NewMonitor
    /\ CycleIdle
    /\ NoReports
    /\ NoFeedRequest
    /\ fetcher = ZeroFilters
    /\ location = ZeroLocation
    /\ loopLog = <<>>
    /\ heading = NoHeading
    /\ swept = [id \in IDs |-> "no"]
    /\ getCall = NoGet
    /\ \E data \in JsonInputs : decoding = [NoDecoding EXCEPT !.data = data]
    /\ config = [Enabled |-> TRUE, NotifyOnCloserOnly |-> TRUE,
                 ReNotifyAfter |-> 0]
    /\ aircraftHistory = EmptyHistory
    /\ now = 0
    /\ last = NoCall
    /\ pollInterval = 1
    /\ prevSighting = NoSightings
    /\ notifiedAt = NoSightings
    /\ seen = {}

decodeFrame == <<trackVars, sightVars, fetchVars, monVars, cycleVars,
                 identVars, queryVars, loopLog, heading, swept, getCall>>

\* the value and what json.Unmarshal into a field made of it
Decoded(field) ==
    [data |-> decoding.data, field |-> field,
     err |-> Unmarshal(field, decoding.data).err,
     value |-> Unmarshal(field, decoding.data).value]

\* json.Unmarshal of the value into one of the fields
Decode ==
    /\ \E field \in Fields : decoding' = Decoded(field)
    /\ UNCHANGED decodeFrame

NextDecode == Decode

SpecDecode == InitDecode /\ [][NextDecode]_vars

\* the number a run of digits writes: digit i of n counts 10^(n-i)
Numeral(t) ==
    LET RECURSIVE Sum(_)
        Sum(i) == IF i > Len(t) THEN 0
                  ELSE DigitValue(t[i]) * 10 ^ (Len(t) - i) + Sum(i + 1)
    IN  Sum(1)

\* C28: the squawk field decodes a JSON string of decimal digits to the
\* integer the digits write, and the JSON number with the same digits to the
\* same integer; it decodes the empty JSON string to 0, and it reports an
\* error for a string that is not empty and not a signed run of digits.
C28_SquawkStringOrNumber ==
    (decoding.field = "Sqk")
        => LET data == decoding.data
               t == data.text
           IN  /\ (data.quoted /\ IsDigits(t))
                     => ~decoding.err /\ decoding.value = Numeral(t)
               /\ (~data.quoted /\ IsDigits(t) /\ checkValid(data))
                     => /\ ~decoding.err
                        /\ decoding.value = Numeral(t)
                        /\ Unmarshal("Sqk", [data EXCEPT !.quoted = TRUE])
                              = [err |-> FALSE, value |-> decoding.value]
               /\ (data.quoted /\ t = <<>>)
                     => ~decoding.err /\ decoding.value = 0
               /\ (data.quoted /\ t # <<>> /\ ~IsDigits(Unsigned(t)))
                     => decoding.err

\* the squawk field has decoded the JSON number 700
C28_Witness ==
    /\ decoding.field = "Sqk"
    /\ decoding.data = [quoted |-> FALSE, text |-> <<"7", "0", "0">>]
    /\ ~decoding.err
    /\ decoding.value = 700

\* what is neither a JSON string nor a JSON integer
NeitherStringNorInteger(data) ==
    ~data.quoted /\ ~IsJsonInteger(data.text)

\* C29 as stated: a categorical field decodes a JSON string to that string
\* and a JSON integer to its decimal string form, and reports an error for
\* every input that is neither a JSON string nor a JSON integer.
C29_ErrorUnlessStringOrInteger ==
    (decoding.field \in Categorical)
        => LET data == decoding.data
           IN  /\ data.quoted
                     => ~decoding.err /\ decoding.value = Join(data.text)
               /\ (~data.quoted /\ IsJsonInteger(data.text))
                     => /\ ~decoding.err
                        /\ decoding.value = IF data.text = <<"-", "0">>
                                            THEN "0"
                                            ELSE Join(data.text)
               /\ NeitherStringNorInteger(data) => decoding.err

\* C29: a categorical field decodes a JSON string to that string, a JSON
\* integer to its decimal string form and JSON null to the empty string
\* without an error, and reports an error for every other input.
C29_StringIntegerOrNull ==
    (decoding.field \in Categorical)
        => LET data == decoding.data
           IN  /\ data.quoted
                     => ~decoding.err /\ decoding.value = Join(data.text)
               /\ (~data.quoted /\ IsJsonInteger(data.text))
                     => /\ ~decoding.err
                        /\ decoding.value = IF data.text = <<"-", "0">>
                                            THEN "0"
                                            ELSE Join(data.text)
               /\ IsNull(data) => ~decoding.err /\ decoding.value = ""
               /\ (NeitherStringNorInteger(data) /\ ~IsNull(data))
                     => decoding.err

\* the engine type field has decoded JSON null, to the empty string and
\* without an error
C29_Witness ==
    /\ decoding.field = "EngType"
    /\ IsNull(decoding.data)
    /\ ~decoding.err
    /\ decoding.value = ""

(***************************************************************************)
(* BearingToDirection.  Bearings are in thousandths of a degree and are    *)
(* multiples of 5.625 degrees, a quarter of a sector: such bearings, their *)
(* remainders and their quotients by 22.5 are exact in float64.            *)
(***************************************************************************)

Bearings == {5625 * k : k \in (0 - MaxTurn)..MaxTurn}

\* math.Mod: the remainder has the sign of x
Mod(x, y) == IF x >= 0 THEN x % y ELSE 0 - ((0 - x) % y)

RoundTowardZero(num, den) ==
    IF num >= 0 THEN num \div den ELSE 0 - ((0 - num) \div den)

RoundHalfTowardZero(num, den) ==
    IF num >= 0
    THEN (2 * num + den - 1) \div (2 * den)
    ELSE 0 - ((2 * (0 - num) + den - 1) \div (2 * den))

\* math.Round of num / den: to the nearest integer, halves away from zero
Round(num, den) ==
    IF num >= 0
    THEN (2 * num + den) \div (2 * den)
    ELSE 0 - ((2 * (0 - num) + den) \div (2 * den))

directions ==
    <<"N", "NNE", "NE", "ENE", "E", "ESE", "SE", "SSE",
      "S", "SSW", "SW", "WSW", "W", "WNW", "NW", "NNW">>

BearingToDirection(bearing) ==
    LET remainder == Mod(bearing, 360000)
        normalized == IF remainder < 0 THEN remainder + 360000 ELSE remainder
        index == Round(normalized, 22500) % 16
    IN  directions[index + 1]

InitGeo ==
    /\ creds = [Username |-> "", Password |-> ""]
    /\ NewFetcher
    /\ NewMonitor
    /\ CycleIdle
    /\ NoReports
    /\ NoFeedRequest
    /\ fetcher = ZeroFilters
    /\ location = ZeroLocation
    /\ loopLog = <<>>
    /\ decoding = NoDecoding
    /\ swept = [id \in IDs |-> "no"]
    /\ getCall = NoGet
    /\ \E b \in Bearings : heading = [NoHeading EXCEPT !.bearing = b]
    /\ config = [Enabled |-> TRUE, NotifyOnCloserOnly |-> TRUE,
                 ReNotifyAfter |-> 0]
    /\ aircraftHistory = EmptyHistory
    /\ now = 0
    /\ last = NoCall
    /\ pollInterval = 1
    /\ prevSighting = NoSightings
    /\ notifiedAt = NoSightings
    /\ seen = {}

\* processAircraft: direction := geo.BearingToDirection(bearing)
Direction ==
    /\ heading' = [heading EXCEPT
                      !.direction = BearingToDirection(heading.bearing)]
    /\ UNCHANGED <<trackVars, sightVars, fetchVars, monVars, cycleVars,
                   identVars, queryVars, loopLog, decoding, swept, getCall>>

NextGeo == Direction

SpecGeo == InitGeo /\ [][NextGeo]_vars

\* C30 as stated: a bearing of exactly 11.25 degrees is named "N", and so is
\* a bearing of exactly 0 degrees.
C30_BoundaryIsNorth ==
    (heading.direction # "none" /\ heading.bearing \in {0, 11250})
        => heading.direction = "N"

\* a bearing as degrees in [0, 360), in thousandths
Normalized(bearing) == ((bearing % 360000) + 360000) % 360000

\* C30: a bearing of exactly 11.25 degrees, the boundary between N and NNE,
\* is named "NNE", and a bearing of exactly 0 degrees is named "N"; the
\* bearings named "N" are those from 348.75 degrees up to, but without,
\* 11.25 degrees.
C30_BoundaryIsNorthNorthEast ==
    (heading.direction # "none")
        => /\ heading.bearing = 11250 => heading.direction = "NNE"
           /\ heading.bearing = 0 => heading.direction = "N"
           /\ heading.direction = "N"
                 <=> \/ Normalized(heading.bearing) >= 348750
                     \/ Normalized(heading.bearing) < 11250

\* the bearing 11.25 degrees has been named, as "NNE"
C30_Witness ==
    /\ heading.bearing = 11250
    /\ heading.direction = "NNE"

\* whole turns added to or taken from a bearing
Turns == (0 - 3)..3

\* C31: the name of a bearing does not change when whole turns are added or
\* subtracted, for negative bearings and bearings above 360 degrees as well,
\* and a bearing in the last quarter sector below 360 degrees is named "N".
C31_WholeTurnsInvariant ==
    (heading.direction # "none")
        => /\ \A k \in Turns :
                 BearingToDirection(heading.bearing + 360000 * k)
                     = heading.direction
           /\ heading.direction
                 = BearingToDirection(Normalized(heading.bearing))
           /\ Normalized(heading.bearing) = 360000 - 5625
                 => heading.direction = "N"

\* the bearing 405 degrees, a turn above 45 degrees, has been named "NE"
C31_Witness ==
    /\ heading.bearing = 405000
    /\ heading.direction = "NE"
    /\ BearingToDirection(45000) = "NE"
    /\ BearingToDirection(0 - 45000) = "NW"

(***************************************************************************)
(* Client.Get: one GET request with its retries.                           *)
(***************************************************************************)

\* what one httpClient.Do may give: an error of the transport, or a response
\* with one of these status codes
Statuses == {200, 204, 304, 404, 500, 503}

TransportError == [err |-> TRUE, StatusCode |-> 0]

DoOutcomes ==
    {TransportError} \cup {[err |-> FALSE, StatusCode |-> c] : c \in Statuses}

\* the condition of the for loop over attempt
LoopCondition(attempt) == attempt <= 3

\* the number the error of Get names, and the default of MaxRetries
NamedAttempts == 3

InitClient ==
    /\ creds = [Username |-> "", Password |-> ""]
    /\ NewFetcher
    /\ NewMonitor
    /\ CycleIdle
    /\ NoReports
    /\ NoFeedRequest
    /\ fetcher = ZeroFilters
    /\ location = ZeroLocation
    /\ RestIdle
    /\ config = [Enabled |-> TRUE, NotifyOnCloserOnly |-> TRUE,
                 ReNotifyAfter |-> 0]
    /\ aircraftHistory = EmptyHistory
    /\ now = 0
    /\ last = NoCall
    /\ pollInterval = 1
    /\ prevSighting = NoSightings
    /\ notifiedAt = NoSightings
    /\ seen = {}

clientFrame == <<trackVars, sightVars, fetchVars, monVars, cycleVars,
                 identVars, queryVars, loopLog, decoding, heading, swept>>

\* Client.Get up to the for loop
GetCall ==
    /\ getCall.pc \in {"idle", "returned"}
    /\ getCall' = [pc |-> "loop", attempt |-> 0, done |-> <<>>,
                   result |-> "none"]
    /\ UNCHANGED clientFrame

\* one pass of the for loop: httpClient.Do and what follows it, up to the
\* next Do or the return
GetAttempt ==
    /\ getCall.pc = "loop"
    /\ LoopCondition(getCall.attempt)
    /\ \E out \in DoOutcomes :
         LET done == Append(getCall.done, out)
             success ==
                 ~out.err /\ out.StatusCode >= 200 /\ out.StatusCode < 300
             clientError ==
                 ~out.err /\ out.StatusCode >= 400 /\ out.StatusCode < 500
         IN  getCall' =
                IF success
                THEN [getCall EXCEPT !.pc = "returned", !.done = done,
                                     !.result = "resp"]
                ELSE IF clientError \/ ~LoopCondition(getCall.attempt + 1)
                THEN [getCall EXCEPT !.pc = "returned", !.done = done,
                                     !.result = "error"]
                ELSE [getCall EXCEPT !.attempt = @ + 1, !.done = done]
    /\ UNCHANGED clientFrame

NextClient == GetCall \/ GetAttempt

SpecClient == InitClient /\ [][NextClient]_vars

\* C38 as stated: Get makes at most the 3 attempts its error names, for every
\* sequence of transport errors and 5xx responses; it returns the first 2xx
\* response with no further attempt, and stops at the first 4xx response.
C38_AtMostThreeAttempts ==
    /\ Len(getCall.done) <= NamedAttempts
    /\ \A i \in 1..Len(getCall.done) :
          (getCall.done[i].StatusCode \in {200, 204, 404})
             => /\ i = Len(getCall.done)
                /\ getCall.pc = "returned"
                /\ getCall.result
                      = IF getCall.done[i].StatusCode = 404
                        THEN "error" ELSE "resp"

====
